---- MODULE Spec2Model ----
(***************************************************************************)
(* MovieGo: the frame pixel pipeline (frame_processor.go), the chunk       *)
(* partition of workerPool.processFrame, and the overlay filter-graph      *)
(* compiler (composite.go, text.go, image/color overlay builders).         *)
(*                                                                         *)
(* Three specifications share the module:                                  *)
(*   Spec       processFrameLoop: reader, processor, pixel workers, writer *)
(*   ChunkSpec  workerPool.processFrame's partition, for every L and P     *)
(*   GraphSpec  writeCompositeVideo / buildOverlayFilterString             *)
(***************************************************************************)
EXTENDS Integers, Sequences, FiniteSets, TLC

(***************************************************************************)
(* Program constants and model bounds                                      *)
(***************************************************************************)
\* const pipelineDepth = 3: capacity of readChan and of processChan
pipelineDepth == 3

\* bufio.NewWriterSize(config.OutputWriter, frameSize*4): frames the buffer holds
bufFrames == 4

\* frames the input stream can deliver before it ends
MaxFrames == 9

\* runtime.NumCPU(): workers of the pool
NumWorkers == 2

\* width*height of a frame, in pixels
NumPixels == 2

\* frameSize := int(config.Video.width * config.Video.height * 4)
frameSize == NumPixels * 4

\* ChunkSpec: the largest frame (in pixels) and the largest worker count tried
MaxChunkPixels == 6

MaxChunkWorkers == 4

(***************************************************************************)
(* State                                                                   *)
(***************************************************************************)
VARIABLES
    \* ---- processFrameLoop ----
    composedFilter, \* config.ComposedFilter: FALSE is nil
    faulty,         \* the streams may fail on their own (a decoder or encoder dying)
    aborted,        \* the caller closed config.InputReader and config.OutputWriter
    inputEnd,       \* how the input ended: "none", "eof", "short", "error"
    mem,            \* contents of the frame buffers in flight: buffer -> [src, calls]
    acquired,       \* number of getBuffer calls so far; the n-th call yields buffer n
    pooled,         \* buffers handed to putBuffer, in order
    rpc,            \* reader goroutine: "read", "send", "exit", "done"
    rbuf,           \* the buffer the reader holds (0: none)
    frameIndex,     \* the reader's frameIndex
    readChan,       \* chan frameData, capacity pipelineDepth
    readClosed,     \* close(readChan) has run
    ppc,            \* processor goroutine: "recv", "dispatch", "wait", "send", "done"
    pframe,         \* the frame the processor holds
    pworker,        \* processFrame's loop counters (tasks sent, dones received)
    tasks,          \* wp.tasks, capacity 2*workers
    wtask,          \* the task each worker is running (NoTask: waiting on wp.tasks)
    doneChan,       \* number of signals in processFrame's doneChan
    processChan,    \* chan frameData, capacity pipelineDepth
    procClosed,     \* close(processChan) has run
    wpc,            \* writer (the calling goroutine): "recv", "write", "flush", "wait", "done"
    wframe,         \* the frame the writer holds
    frameCount,     \* the writer's frameCount
    wbuf,           \* frames held in bufferedWriter's buffer
    bufErr,         \* bufferedWriter's sticky error (b.err != nil)
    out,            \* frames delivered to config.OutputWriter
    pipelineErr,    \* pipelineErr
    errLog,         \* every error handed to setError, in call order
    result,         \* the value processFrameLoop returned
    \* ---- workerPool.processFrame, alone ----
    cpc, cL, cP, cWorker, cChunks, cRun, cCalls, cPanic,
    \* ---- writeCompositeVideo ----
    gpc, video, sourceMap, sources, filterParts, hasAudio, mapArgs,
    \* ---- one call of a function that keeps no state ----
    fn,             \* the function called
    args,           \* its arguments
    ret,            \* << >> before it returns, then <<the value returned>>
    started         \* the external engine commands started by the call, in order

pvars == <<composedFilter, faulty, aborted, inputEnd, mem, acquired, pooled, rpc, rbuf,
           frameIndex, readChan, readClosed, ppc, pframe, pworker, tasks, wtask,
           doneChan, processChan, procClosed, wpc, wframe, frameCount, wbuf,
           bufErr, out, pipelineErr, errLog, result>>

cvars == <<cpc, cL, cP, cWorker, cChunks, cRun, cCalls, cPanic>>

gvars == <<gpc, video, sourceMap, sources, filterParts, hasAudio, mapArgs>>

fvars == <<fn, args, ret, started>>

vars == <<pvars, cvars, gvars, fvars>>

\* what the steps of one part of the program leave alone
notPipe == <<cvars, gvars, fvars>>

notChunk == <<pvars, gvars, fvars>>

notGraph == <<pvars, cvars, fvars>>

notCall == <<pvars, cvars, gvars>>

(***************************************************************************)
(* workerPool.processFrame: the chunk partition                            *)
(***************************************************************************)
\* chunkSize := len(data) / wp.workers; if chunkSize%4 != 0 { chunkSize -= chunkSize % 4 }
chunkSizeUnaligned(L, P) == L \div P

chunkSize(L, P) ==
    LET c == L \div P IN IF c % 4 # 0 THEN c - (c % 4) ELSE c

\* start := worker * chunkSize
chunkStart(L, P, worker) == worker * chunkSize(L, P)

\* end := start + chunkSize; if worker == wp.workers-1 { end = len(data) }
chunkEnd(L, P, worker) ==
    IF worker = P - 1 THEN L ELSE chunkStart(L, P, worker) + chunkSize(L, P)

\* the indices a worker passes to task.filter: for i := start; i < end; i += 4
RECURSIVE filterIndices(_, _)
filterIndices(start, end) ==
    IF start < end THEN {start} \cup filterIndices(start + 4, end) ELSE {}

\* worker(): task.filter(task.data, i) for every index of the chunk; a call
\* counts once at i (the filter reads and writes bytes i, i+1, i+2)
runChunk(calls, start, end) ==
    [i \in DOMAIN calls |->
        IF i \in filterIndices(start, end) THEN calls[i] + 1 ELSE calls[i]]

\* a filter call at i indexes data[i+2]: out of range panics
chunkPanics(L, start, end) == \E i \in filterIndices(start, end) : i + 2 >= L

\* a frame as read from the input: no filter call made yet
freshCalls(L) == [i \in 0..(L - 1) |-> 0]

\* one call at the first byte of every pixel, none elsewhere
oncePerPixel(L) == [i \in 0..(L - 1) |-> IF i % 4 = 0 THEN 1 ELSE 0]

(***************************************************************************)
(* processFrameLoop                                                        *)
(***************************************************************************)
Nil == [stage |-> "nil", frame |-> 0]
readError(k) == [stage |-> "read", frame |-> k]
writeError(k) == [stage |-> "write", frame |-> k]
flushError == [stage |-> "flush", frame |-> 0]

NoFrame == [buffer |-> 0, frameIndex |-> 0]
NoTask == [buffer |-> 0, start |-> 0, end |-> 0]
Workers == 1..NumWorkers

\* setError: if pipelineErr == nil { pipelineErr = err }
setErrorLastWins(cur, err) == err

setError(cur, err) == IF cur = Nil THEN err ELSE cur

\* getBuffer / putBuffer: a buffer is one acquisition from bufferPool
outstanding == acquired - Len(pooled)

dropBuffer(m, b) == [x \in DOMAIN m \ {b} |-> m[x]]

PipeInit ==
    /\ composedFilter \in BOOLEAN
    /\ aborted = FALSE
    /\ inputEnd = "none"
    /\ mem = << >>
    /\ acquired = 0
    /\ pooled = << >>
    /\ rpc = "read"
    /\ rbuf = 0
    /\ frameIndex = 0
    /\ readChan = << >>
    /\ readClosed = FALSE
    /\ ppc = "recv"
    /\ pframe = NoFrame
    /\ pworker = 0
    /\ tasks = << >>
    /\ wtask = [w \in Workers |-> NoTask]
    /\ doneChan = 0
    /\ processChan = << >>
    /\ procClosed = FALSE
    /\ wpc = "recv"
    /\ wframe = NoFrame
    /\ frameCount = 0
    /\ wbuf = << >>
    /\ bufErr = FALSE
    /\ out = << >>
    /\ pipelineErr = Nil
    /\ errLog = << >>
    /\ result = Nil

\* ---- Stage 1: reader goroutine ----

\* buf := getBuffer(frameSize); io.ReadFull reads one complete frame
ReaderReadFrame ==
    /\ rpc = "read"
    /\ ~aborted
    /\ frameIndex < MaxFrames
    /\ acquired' = acquired + 1
    /\ rbuf' = acquired + 1
    /\ mem' = (acquired + 1 :> [src |-> frameIndex, calls |-> freshCalls(frameSize)]) @@ mem
    /\ rpc' = "send"
    /\ UNCHANGED <<notPipe, composedFilter, faulty, aborted, inputEnd, pooled, frameIndex, readChan,
                   readClosed, ppc, pframe, pworker, tasks, wtask, doneChan,
                   processChan, procClosed, wpc, wframe, frameCount, wbuf, bufErr,
                   out, pipelineErr, errLog, result>>

\* io.ReadFull returns io.EOF (no byte read) or io.ErrUnexpectedEOF (a partial
\* frame): putBuffer(buf); break
ReaderReadEndShortIsError ==
    /\ rpc = "read"
    /\ \E e \in {"eof", "short"} :
          /\ inputEnd' = e
          /\ pipelineErr' = IF e = "short"
                               THEN setError(pipelineErr, readError(frameIndex))
                               ELSE pipelineErr
          /\ errLog' = IF e = "short"
                          THEN Append(errLog, readError(frameIndex))
                          ELSE errLog
    /\ acquired' = acquired + 1
    /\ pooled' = Append(pooled, acquired + 1)
    /\ rpc' = "exit"
    /\ UNCHANGED <<notPipe, composedFilter, faulty, aborted, mem, rbuf, frameIndex, readChan,
                   readClosed, ppc, pframe, pworker, tasks, wtask, doneChan,
                   processChan, procClosed, wpc, wframe, frameCount, wbuf, bufErr,
                   out, result>>

ReaderReadEnd ==
    /\ rpc = "read"
    /\ \E e \in {"eof", "short"} : inputEnd' = e
    /\ acquired' = acquired + 1
    /\ pooled' = Append(pooled, acquired + 1)
    /\ rpc' = "exit"
    /\ UNCHANGED <<notPipe, composedFilter, faulty, aborted, mem, rbuf, frameIndex, readChan,
                   readClosed, ppc, pframe, pworker, tasks, wtask, doneChan,
                   processChan, procClosed, wpc, wframe, frameCount, wbuf, bufErr,
                   out, pipelineErr, errLog, result>>

\* any other read error: setError(...); putBuffer(buf); break
ReaderReadError ==
    /\ rpc = "read"
    /\ faulty \/ aborted
    /\ inputEnd' = "error"
    /\ acquired' = acquired + 1
    /\ pooled' = Append(pooled, acquired + 1)
    /\ pipelineErr' = setError(pipelineErr, readError(frameIndex))
    /\ errLog' = Append(errLog, readError(frameIndex))
    /\ rpc' = "exit"
    /\ UNCHANGED <<notPipe, composedFilter, faulty, aborted, mem, rbuf, frameIndex, readChan,
                   readClosed, ppc, pframe, pworker, tasks, wtask, doneChan,
                   processChan, procClosed, wpc, wframe, frameCount, wbuf, bufErr,
                   out, result>>

\* readChan <- frameData{...}; frameIndex++   (blocks while readChan is full)
ReaderSendUnbounded ==
    /\ rpc = "send"
    /\ readChan' = Append(readChan, [buffer |-> rbuf, frameIndex |-> frameIndex])
    /\ frameIndex' = frameIndex + 1
    /\ rbuf' = 0
    /\ rpc' = "read"
    /\ UNCHANGED <<notPipe, composedFilter, faulty, aborted, inputEnd, mem, acquired, pooled,
                   readClosed, ppc, pframe, pworker, tasks, wtask, doneChan,
                   processChan, procClosed, wpc, wframe, frameCount, wbuf, bufErr,
                   out, pipelineErr, errLog, result>>

ReaderSend ==
    /\ Len(readChan) < pipelineDepth
    /\ ReaderSendUnbounded

\* defer close(readChan); defer pipelineWg.Done()
ReaderExit ==
    /\ rpc = "exit"
    /\ readClosed' = TRUE
    /\ rpc' = "done"
    /\ UNCHANGED <<notPipe, composedFilter, faulty, aborted, inputEnd, mem, acquired, pooled, rbuf,
                   frameIndex, readChan, ppc, pframe, pworker, tasks, wtask,
                   doneChan, processChan, procClosed, wpc, wframe, frameCount, wbuf,
                   bufErr, out, pipelineErr, errLog, result>>

\* ---- Stage 2: processor goroutine ----

\* for frame := range readChan; processFrame returns at once when the filter is nil
ProcRecvNewest ==
    /\ ppc = "recv"
    /\ readChan # << >>
    /\ pframe' = readChan[Len(readChan)]
    /\ readChan' = SubSeq(readChan, 1, Len(readChan) - 1)
    /\ pworker' = 0
    /\ ppc' = IF composedFilter THEN "dispatch" ELSE "send"
    /\ UNCHANGED <<notPipe, composedFilter, faulty, aborted, inputEnd, mem, acquired, pooled, rpc,
                   rbuf, frameIndex, readClosed, tasks, wtask, doneChan,
                   processChan, procClosed, wpc, wframe, frameCount, wbuf, bufErr,
                   out, pipelineErr, errLog, result>>

ProcRecv ==
    /\ ppc = "recv"
    /\ readChan # << >>
    /\ pframe' = Head(readChan)
    /\ readChan' = Tail(readChan)
    /\ pworker' = 0
    /\ ppc' = IF composedFilter THEN "dispatch" ELSE "send"
    /\ UNCHANGED <<notPipe, composedFilter, faulty, aborted, inputEnd, mem, acquired, pooled, rpc,
                   rbuf, frameIndex, readClosed, tasks, wtask, doneChan,
                   processChan, procClosed, wpc, wframe, frameCount, wbuf, bufErr,
                   out, pipelineErr, errLog, result>>

\* wp.tasks <- pixelTask{...} for worker = pworker; after the last one, wait
ProcDispatch ==
    /\ ppc = "dispatch"
    /\ Len(tasks) < 2 * NumWorkers
    /\ tasks' = Append(tasks, [buffer |-> pframe.buffer,
                               start |-> chunkStart(frameSize, NumWorkers, pworker),
                               end |-> chunkEnd(frameSize, NumWorkers, pworker)])
    /\ IF pworker + 1 = NumWorkers
         THEN ppc' = "wait" /\ pworker' = 0
         ELSE ppc' = ppc /\ pworker' = pworker + 1
    /\ UNCHANGED <<notPipe, composedFilter, faulty, aborted, inputEnd, mem, acquired, pooled, rpc,
                   rbuf, frameIndex, readChan, readClosed, pframe, wtask, doneChan,
                   processChan, procClosed, wpc, wframe, frameCount, wbuf, bufErr,
                   out, pipelineErr, errLog, result>>

\* for i := 0; i < wp.workers; i++ { <-doneChan }
ProcWaitFirst ==
    /\ ppc = "wait"
    /\ doneChan > 0
    /\ doneChan' = doneChan - 1
    /\ ppc' = "send" /\ pworker' = 0
    /\ UNCHANGED <<notPipe, composedFilter, faulty, aborted, inputEnd, mem, acquired, pooled, rpc,
                   rbuf, frameIndex, readChan, readClosed, pframe, tasks, wtask,
                   processChan, procClosed, wpc, wframe, frameCount, wbuf, bufErr,
                   out, pipelineErr, errLog, result>>

ProcWait ==
    /\ ppc = "wait"
    /\ doneChan > 0
    /\ doneChan' = doneChan - 1
    /\ IF pworker + 1 = NumWorkers
         THEN ppc' = "send" /\ pworker' = 0
         ELSE ppc' = ppc /\ pworker' = pworker + 1
    /\ UNCHANGED <<notPipe, composedFilter, faulty, aborted, inputEnd, mem, acquired, pooled, rpc,
                   rbuf, frameIndex, readChan, readClosed, pframe, tasks, wtask,
                   processChan, procClosed, wpc, wframe, frameCount, wbuf, bufErr,
                   out, pipelineErr, errLog, result>>

\* processChan <- frame   (blocks while processChan is full)
ProcSend ==
    /\ ppc = "send"
    /\ Len(processChan) < pipelineDepth
    /\ processChan' = Append(processChan, pframe)
    /\ pframe' = NoFrame
    /\ ppc' = "recv"
    /\ UNCHANGED <<notPipe, composedFilter, faulty, aborted, inputEnd, mem, acquired, pooled, rpc,
                   rbuf, frameIndex, readChan, readClosed, pworker, tasks, wtask,
                   doneChan, procClosed, wpc, wframe, frameCount, wbuf, bufErr,
                   out, pipelineErr, errLog, result>>

\* range readChan ends: defer close(processChan); defer pipelineWg.Done()
ProcExit ==
    /\ ppc = "recv"
    /\ readChan = << >>
    /\ readClosed
    /\ procClosed' = TRUE
    /\ ppc' = "done"
    /\ UNCHANGED <<notPipe, composedFilter, faulty, aborted, inputEnd, mem, acquired, pooled, rpc,
                   rbuf, frameIndex, readChan, readClosed, pframe, pworker, tasks,
                   wtask, doneChan, processChan, wpc, wframe, frameCount, wbuf,
                   bufErr, out, pipelineErr, errLog, result>>

\* ---- workerPool.worker ----

\* for task := range wp.tasks
WorkerTake(w) ==
    /\ wtask[w] = NoTask
    /\ tasks # << >>
    /\ wtask' = [wtask EXCEPT ![w] = Head(tasks)]
    /\ tasks' = Tail(tasks)
    /\ UNCHANGED <<notPipe, composedFilter, faulty, aborted, inputEnd, mem, acquired, pooled, rpc,
                   rbuf, frameIndex, readChan, readClosed, ppc, pframe, pworker,
                   doneChan, processChan, procClosed, wpc, wframe, frameCount, wbuf,
                   bufErr, out, pipelineErr, errLog, result>>

\* the filter over the chunk, then task.done <- struct{}{}
WorkerRun(w) ==
    /\ wtask[w] # NoTask
    /\ mem' = IF wtask[w].buffer \in DOMAIN mem
                THEN [mem EXCEPT ![wtask[w].buffer].calls =
                          runChunk(@, wtask[w].start, wtask[w].end)]
                ELSE mem
    /\ doneChan' = doneChan + 1
    /\ wtask' = [wtask EXCEPT ![w] = NoTask]
    /\ UNCHANGED <<notPipe, composedFilter, faulty, aborted, inputEnd, acquired, pooled, rpc, rbuf,
                   frameIndex, readChan, readClosed, ppc, pframe, pworker, tasks,
                   processChan, procClosed, wpc, wframe, frameCount, wbuf, bufErr,
                   out, pipelineErr, errLog, result>>

\* ---- Stage 3: writer, on the calling goroutine ----

\* for frame := range processChan
WriterRecv ==
    /\ wpc = "recv"
    /\ processChan # << >>
    /\ wframe' = Head(processChan)
    /\ processChan' = Tail(processChan)
    /\ wpc' = "write"
    /\ UNCHANGED <<notPipe, composedFilter, faulty, aborted, inputEnd, mem, acquired, pooled, rpc,
                   rbuf, frameIndex, readChan, readClosed, ppc, pframe, pworker,
                   tasks, wtask, doneChan, procClosed, frameCount, wbuf, bufErr,
                   out, pipelineErr, errLog, result>>

\* bufferedWriter.Write succeeds: the frame fits the buffer, or the full buffer
\* is first written out to the output; putBuffer(frame.buffer); frameCount++
WriterWriteOk ==
    /\ wpc = "write"
    /\ IF Len(wbuf) < bufFrames
         THEN /\ wbuf' = Append(wbuf, mem[wframe.buffer])
              /\ out' = out
         ELSE /\ ~aborted
              /\ out' = out \o wbuf
              /\ wbuf' = <<mem[wframe.buffer]>>
    /\ pooled' = Append(pooled, wframe.buffer)
    /\ mem' = dropBuffer(mem, wframe.buffer)
    /\ frameCount' = frameCount + 1
    /\ wframe' = NoFrame
    /\ wpc' = "recv"
    /\ UNCHANGED <<notPipe, composedFilter, faulty, aborted, inputEnd, acquired, rpc, rbuf,
                   frameIndex, readChan, readClosed, ppc, pframe, pworker, tasks,
                   wtask, doneChan, processChan, procClosed, bufErr, pipelineErr,
                   errLog, result>>

\* bufferedWriter.Write fails (the buffer was full and the output refused it):
\* setError(...); putBuffer(frame.buffer); break
WriterWriteFail ==
    /\ wpc = "write"
    /\ Len(wbuf) = bufFrames
    /\ faulty \/ aborted
    /\ bufErr' = TRUE
    /\ pipelineErr' = setError(pipelineErr, writeError(frameCount))
    /\ errLog' = Append(errLog, writeError(frameCount))
    /\ pooled' = Append(pooled, wframe.buffer)
    /\ mem' = dropBuffer(mem, wframe.buffer)
    /\ wframe' = NoFrame
    /\ wpc' = "flush"
    /\ UNCHANGED <<notPipe, composedFilter, faulty, aborted, inputEnd, acquired, rpc, rbuf,
                   frameIndex, readChan, readClosed, ppc, pframe, pworker, tasks,
                   wtask, doneChan, processChan, procClosed, frameCount, wbuf, out,
                   result>>

\* range processChan ends (closed and empty)
WriterEnd ==
    /\ wpc = "recv"
    /\ processChan = << >>
    /\ procClosed
    /\ wpc' = "flush"
    /\ UNCHANGED <<notPipe, composedFilter, faulty, aborted, inputEnd, mem, acquired, pooled, rpc,
                   rbuf, frameIndex, readChan, readClosed, ppc, pframe, pworker,
                   tasks, wtask, doneChan, processChan, procClosed, wframe,
                   frameCount, wbuf, bufErr, out, pipelineErr, errLog, result>>

\* bufferedWriter.Flush() returns nil
WriterFlushOk ==
    /\ wpc = "flush"
    /\ ~bufErr
    /\ wbuf # << >> => ~aborted
    /\ out' = out \o wbuf
    /\ wbuf' = << >>
    /\ wpc' = "wait"
    /\ UNCHANGED <<notPipe, composedFilter, faulty, aborted, inputEnd, mem, acquired, pooled, rpc,
                   rbuf, frameIndex, readChan, readClosed, ppc, pframe, pworker,
                   tasks, wtask, doneChan, processChan, procClosed, wframe,
                   frameCount, bufErr, pipelineErr, errLog, result>>

\* bufferedWriter.Flush() returns the sticky error or a new one: setError(...)
WriterFlushFail ==
    /\ wpc = "flush"
    /\ bufErr \/ (wbuf # << >> /\ (faulty \/ aborted))
    /\ bufErr' = TRUE
    /\ pipelineErr' = setError(pipelineErr, flushError)
    /\ errLog' = Append(errLog, flushError)
    /\ wpc' = "wait"
    /\ UNCHANGED <<notPipe, composedFilter, faulty, aborted, inputEnd, mem, acquired, pooled, rpc,
                   rbuf, frameIndex, readChan, readClosed, ppc, pframe, pworker,
                   tasks, wtask, doneChan, processChan, procClosed, wframe,
                   frameCount, wbuf, out, result>>

\* pipelineWg.Wait(); return pipelineErr
WriterReturnEarly ==
    /\ wpc = "wait"
    /\ result' = pipelineErr
    /\ wpc' = "done"
    /\ UNCHANGED <<notPipe, composedFilter, faulty, aborted, inputEnd, mem, acquired, pooled, rpc,
                   rbuf, frameIndex, readChan, readClosed, ppc, pframe, pworker,
                   tasks, wtask, doneChan, processChan, procClosed, wframe,
                   frameCount, wbuf, bufErr, out, pipelineErr, errLog>>

WriterReturn ==
    /\ rpc = "done"
    /\ ppc = "done"
    /\ WriterReturnEarly

\* ---- the caller ----

\* the caller aborts: it closes the input and the output stream
Abort ==
    /\ wpc # "done"
    /\ ~aborted
    /\ aborted' = TRUE
    /\ UNCHANGED <<notPipe, composedFilter, faulty, inputEnd, mem, acquired, pooled, rpc, rbuf,
                   frameIndex, readChan, readClosed, ppc, pframe, pworker, tasks,
                   wtask, doneChan, processChan, procClosed, wpc, wframe,
                   frameCount, wbuf, bufErr, out, pipelineErr, errLog, result>>

\* every step of the program itself (the three stages and the pixel workers)
StageNext ==
    \/ ReaderReadFrame
    \/ ReaderReadEnd
    \/ ReaderReadError
    \/ ReaderSend
    \/ ReaderExit
    \/ ProcRecv
    \/ ProcDispatch
    \/ ProcWait
    \/ ProcSend
    \/ ProcExit
    \/ \E w \in Workers : WorkerTake(w)
    \/ \E w \in Workers : WorkerRun(w)
    \/ WriterRecv
    \/ WriterWriteOk
    \/ WriterWriteFail
    \/ WriterEnd
    \/ WriterFlushOk
    \/ WriterFlushFail
    \/ WriterReturn

PipeIdle ==
    /\ composedFilter = FALSE
    /\ faulty = FALSE
    /\ aborted = FALSE
    /\ inputEnd = "none"
    /\ mem = << >>
    /\ acquired = 0
    /\ pooled = << >>
    /\ rpc = "done"
    /\ rbuf = 0
    /\ frameIndex = 0
    /\ readChan = << >>
    /\ readClosed = FALSE
    /\ ppc = "done"
    /\ pframe = NoFrame
    /\ pworker = 0
    /\ tasks = << >>
    /\ wtask = [w \in Workers |-> NoTask]
    /\ doneChan = 0
    /\ processChan = << >>
    /\ procClosed = FALSE
    /\ wpc = "done"
    /\ wframe = NoFrame
    /\ frameCount = 0
    /\ wbuf = << >>
    /\ bufErr = FALSE
    /\ out = << >>
    /\ pipelineErr = Nil
    /\ errLog = << >>
    /\ result = Nil

ChunkIdle ==
    /\ cpc = "idle"
    /\ cL = 0
    /\ cP = 1
    /\ cWorker = 0
    /\ cChunks = << >>
    /\ cRun = {}
    /\ cCalls = << >>
    /\ cPanic = FALSE

GraphIdle ==
    /\ gpc = "idle"
    /\ video = << >>
    /\ sourceMap = << >>
    /\ sources = << >>
    /\ filterParts = << >>
    /\ hasAudio = FALSE
    /\ mapArgs = << >>

CallIdle ==
    /\ fn = "none"
    /\ args = << >>
    /\ ret = << >>
    /\ started = << >>

\* processFrameLoop between two processes that may die at any time
Init == PipeInit /\ faulty = TRUE /\ ChunkIdle /\ GraphIdle /\ CallIdle

Next == StageNext

Spec == Init /\ [][Next]_vars

\* the program while the caller may abort it
AbortNext == StageNext \/ Abort

\* processFrameLoop between two healthy processes, and a caller that may abort
AbortInit == PipeInit /\ faulty = FALSE /\ ChunkIdle /\ GraphIdle /\ CallIdle

AbortSpec == AbortInit /\ [][AbortNext]_vars

(***************************************************************************)
(* The timeline handed to writeCompositeVideo                              *)
(***************************************************************************)
\* CompositeClipItem: video = FALSE is a nil clip
NilItem == [video |-> FALSE, filename |-> "", audio |-> FALSE, layer |-> 0]

\* a.mp4 has an audio track, b.mp4 has none; a clip without a filename still
\* carries audio
Items ==
    {NilItem, [video |-> TRUE, filename |-> "", audio |-> TRUE, layer |-> 0]} \cup
    {[video |-> TRUE, filename |-> "a.mp4", audio |-> TRUE, layer |-> l] : l \in {0, 1}} \cup
    {[video |-> TRUE, filename |-> "b.mp4", audio |-> FALSE, layer |-> 0]}

\* TextClip: xf is textNeedsRotationOrScale (a rotation or scale animation is set)
TextClips == [layer : {0, 1}, xf : BOOLEAN] \ {[layer |-> 1, xf |-> TRUE]}

\* ImageClip
ImageClips == [layer : {-1, 0}, imagePath : {"", "missing.png", "logo.png", "photo.png"}]

\* ColorClip: xf is a rotation or scale animation being set
ColorClips == [layer : {-1, 0}, xf : BOOLEAN] \ {[layer |-> -1, xf |-> TRUE]}

\* SubtitleClip
SubtitleClips == [filePath : {"missing.srt", "subs.srt"}]

\* os.Stat(path): the files that do not exist
fileExists(path) == path \notin {"missing.png", "missing.srt"}

SeqsUpTo(S, n) == UNION {[1..k -> S] : k \in 0..n}

(***************************************************************************)
(* Filter graph: a node is one filterParts entry, a chain with its input   *)
(* labels, its operation and its output labels                             *)
(***************************************************************************)
\* of: the clip a node was emitted for (none for the canvas, the audio mix and
\* the final rename)
NoClip == [layer |-> 0, clipType |-> "none", index |-> -1]

Node(ins, op, outs) == [ins |-> ins, op |-> op, outs |-> outs, of |-> NoClip]

emittedFor(nodes, clip) == [n \in 1..Len(nodes) |-> [nodes[n] EXCEPT !.of = clip]]

\* fmt.Sprintf("[%d:v]", k), fmt.Sprintf("[%d:a]", k)
videoIn(k) == ToString(k) \o ":v"
audioIn(k) == ToString(k) \o ":a"

\* fmt.Sprintf("clip%d", i) and the like
label(prefix, i) == prefix \o ToString(i)

\* strings.ReplaceAll(filter, "[old]", "[new]")
RECURSIVE replaceInLabels(_, _, _)
replaceInLabels(labels, old, new) ==
    IF labels = << >> THEN << >>
    ELSE <<IF Head(labels) = old THEN new ELSE Head(labels)>>
             \o replaceInLabels(Tail(labels), old, new)

replaceAll(nodes, old, new) ==
    [n \in 1..Len(nodes) |->
        Node(replaceInLabels(nodes[n].ins, old, new), nodes[n].op,
             replaceInLabels(nodes[n].outs, old, new))]

\* no sort at all
unsorted(s) == s

\* sort.Slice(s, func(i, j) bool { return s[i].layer < s[j].layer }): below 12
\* elements sort.Slice is an insertion sort
RECURSIVE insertByLayer(_, _)
insertByLayer(sorted, x) ==
    IF sorted = << >> THEN <<x>>
    ELSE IF x.layer < sorted[Len(sorted)].layer
           THEN Append(insertByLayer(SubSeq(sorted, 1, Len(sorted) - 1), x),
                       sorted[Len(sorted)])
           ELSE Append(sorted, x)

RECURSIVE sortByLayer(_)
sortByLayer(s) ==
    IF s = << >> THEN << >>
    ELSE insertByLayer(sortByLayer(SubSeq(s, 1, Len(s) - 1)), s[Len(s)])

sortClipsByLayer(items) == sortByLayer(items)

\* position of a filename in sources, from 0: sourceMap[filename]
RECURSIVE indexOf(_, _)
indexOf(seq, x) ==
    IF seq = << >> THEN -1
    ELSE IF seq[Len(seq)] = x /\ indexOf(SubSeq(seq, 1, Len(seq) - 1), x) = -1
           THEN Len(seq) - 1
           ELSE indexOf(SubSeq(seq, 1, Len(seq) - 1), x)

\* writeCompositeVideo: the source map, in declaration order
RECURSIVE buildSources(_)
buildSources(items) ==
    IF items = << >> THEN << >>
    ELSE LET before == buildSources(SubSeq(items, 1, Len(items) - 1))
             item == items[Len(items)]
         IN  IF ~item.video THEN before
             ELSE IF indexOf(before, item.filename) # -1 THEN before
             ELSE Append(before, item.filename)

\* writeCompositeVideo: "-loop 1 -t d -i imagePath" for every image clip with a path
RECURSIVE buildImageInputs(_)
buildImageInputs(images) ==
    IF images = << >> THEN << >>
    ELSE LET before == buildImageInputs(SubSeq(images, 1, Len(images) - 1))
         IN  IF images[Len(images)].imagePath # ""
               THEN Append(before, images[Len(images)].imagePath)
               ELSE before

\* buildOverlayFilterString: the items kept as valid
RECURSIVE validItemsOf(_, _)
validItemsOf(items, srcs) ==
    IF items = << >> THEN << >>
    ELSE LET before == validItemsOf(SubSeq(items, 1, Len(items) - 1), srcs)
             item == items[Len(items)]
         IN  IF ~item.video THEN before
             ELSE IF item.filename = "" THEN before
             ELSE IF indexOf(srcs, item.filename) = -1 THEN before
             ELSE Append(before, item)

\* the clip loop: one chain node and one overlay node per valid item
RECURSIVE clipParts(_, _, _)
clipParts(valid, srcs, n) ==
    IF n = 0 THEN << >>
    ELSE LET i == n - 1
             item == valid[n]
             clipLabel == label("clip", i)
             currentOutput == IF i = 0 THEN "base" ELSE label("out", i - 1)
             nextOutput == IF i = Len(valid) - 1 THEN "outv" ELSE label("out", i)
         IN  clipParts(valid, srcs, n - 1)
               \o emittedFor(
                    <<Node(<<videoIn(indexOf(srcs, item.filename))>>, "clip", <<clipLabel>>),
                      Node(<<currentOutput, clipLabel>>, "overlay", <<nextOutput>>)>>,
                    [layer |-> item.layer, clipType |-> "item", index |-> i])

\* the audio loop: one chain per valid item that has audio
RECURSIVE audioParts(_, _, _)
audioParts(valid, srcs, n) ==
    IF n = 0 THEN << >>
    ELSE LET item == valid[n]
         IN  audioParts(valid, srcs, n - 1)
               \o (IF item.audio
                     THEN <<Node(<<audioIn(indexOf(srcs, item.filename))>>, "atrim",
                                 <<label("a", n - 1)>>)>>
                     ELSE << >>)

RECURSIVE flattenOuts(_)
flattenOuts(nodes) ==
    IF nodes = << >> THEN << >> ELSE Head(nodes).outs \o flattenOuts(Tail(nodes))

\* amix over the audio chains, when there is one
audioMix(chains) ==
    IF chains = << >> THEN << >>
    ELSE chains \o <<Node(flattenOuts(chains), "amix", <<"outa">>)>>

\* hasAudio, computed over the sorted items before the valid ones are filtered
anyAudio(items) == \E i \in 1..Len(items) : items[i].video /\ items[i].audio

\* the overlays collected in the order text, image, color, subtitle
collectOverlays(v) ==
    [i \in 1..Len(v.textClips) |->
        [layer |-> v.textClips[i].layer, clipType |-> "text", index |-> i - 1]]
    \o [i \in 1..Len(v.imageClips) |->
        [layer |-> v.imageClips[i].layer, clipType |-> "image", index |-> i - 1]]
    \o [i \in 1..Len(v.colorClips) |->
        [layer |-> v.colorClips[i].layer, clipType |-> "color", index |-> i - 1]]
    \o [i \in 1..Len(v.subtitleClips) |->
        [layer |-> 0, clipType |-> "subtitle", index |-> i - 1]]

\* first pass over the sorted overlays: imageClipToInput, as the sequence of
\* image indices in the order they were given an input index
RECURSIVE imageOrder(_, _)
imageOrder(v, sorted) ==
    IF sorted = << >> THEN << >>
    ELSE LET before == imageOrder(v, SubSeq(sorted, 1, Len(sorted) - 1))
             o == sorted[Len(sorted)]
         IN  IF o.clipType = "image" /\ v.imageClips[o.index + 1].imagePath # ""
                  /\ indexOf(before, o.index) = -1
               THEN Append(before, o.index)
               ELSE before

\* buildTextFilterString: a drawtext chain, labels added by the caller
\* buildRotatedScaledTextFilterString: transparent layer, drawtext, transform,
\* format, overlay; the labels carry the clip's address (%p)
buildRotatedScaledTextFilterString(id, baseLabel, outputLabel) ==
    <<Node(<< >>, "color", <<label("textbase_", id)>>),
      Node(<<label("textbase_", id)>>, "drawtext", <<label("textdraw_", id)>>),
      Node(<<label("textdraw_", id)>>, "transform", <<label("textxf_", id)>>),
      Node(<<label("textxf_", id)>>, "format", <<label("textfmt_", id)>>),
      Node(<<baseLabel, label("textfmt_", id)>>, "overlay", <<outputLabel>>)>>

\* buildImageOverlayFilterString: "[1:v]...[img];[0:v][img]overlay=..."
buildImageOverlayFilterString(imageClip) ==
    IF ~fileExists(imageClip.imagePath)
      THEN [err |-> TRUE, nodes |-> << >>]
      ELSE [err |-> FALSE,
            nodes |-> <<Node(<<"1:v">>, "image", <<"img">>),
                        Node(<<"0:v", "img">>, "overlay", << >>)>>]

\* buildColorOverlayFilterString: "color=...[color];[0:v][color]overlay=...", with
\* "[color]...[color_transformed]" in between when a transform is set
buildColorOverlayFilterString(colorClip) ==
    IF colorClip.xf
      THEN <<Node(<< >>, "color", <<"color">>),
             Node(<<"color">>, "transform", <<"color_transformed">>),
             Node(<<"0:v", "color_transformed">>, "overlay", << >>)>>
      ELSE <<Node(<< >>, "color", <<"color">>),
             Node(<<"0:v", "color">>, "overlay", << >>)>>

\* buildSubtitleFilterString
buildSubtitleFilterString(subtitleClip) ==
    IF ~fileExists(subtitleClip.filePath)
      THEN [err |-> TRUE, op |-> ""]
      ELSE [err |-> FALSE, op |-> "subtitles"]

\* one iteration of the overlay loop: st is [parts, currentOutput]
overlayStep(v, sorted, imgOrder, firstImageInput, st, i) ==
    LET overlay == sorted[i + 1]
        nextOutput == IF i = Len(sorted) - 1 THEN "outv_final" ELSE label("overlay", i)
        emit(nodes) == [parts |-> st.parts \o emittedFor(nodes, overlay),
                        currentOutput |-> nextOutput]
    IN  CASE overlay.clipType = "text" ->
               IF v.textClips[overlay.index + 1].xf
                 THEN emit(buildRotatedScaledTextFilterString(
                               overlay.index, st.currentOutput, nextOutput))
                 ELSE emit(<<Node(<<st.currentOutput>>, "drawtext", <<nextOutput>>)>>)
          [] overlay.clipType = "image" ->
               LET imageClip == v.imageClips[overlay.index + 1]
                   built == buildImageOverlayFilterString(imageClip)
                   inputIdx == firstImageInput + indexOf(imgOrder, overlay.index)
               IN  IF imageClip.imagePath = "" \/ indexOf(imgOrder, overlay.index) = -1
                     THEN st
                   ELSE IF built.err THEN st
                   ELSE emit(replaceAll(
                               replaceAll(
                                 replaceAll(built.nodes, "1:v", videoIn(inputIdx)),
                                 "0:v", st.currentOutput),
                               "out", nextOutput))
          [] overlay.clipType = "color" ->
               emit(replaceAll(
                      replaceAll(
                        buildColorOverlayFilterString(v.colorClips[overlay.index + 1]),
                        "0:v", st.currentOutput),
                      "out", nextOutput))
          [] overlay.clipType = "subtitle" ->
               LET built == buildSubtitleFilterString(v.subtitleClips[overlay.index + 1])
               IN  IF built.err THEN st
                   ELSE emit(<<Node(<<st.currentOutput>>, built.op, <<nextOutput>>)>>)

RECURSIVE overlayLoop(_, _, _, _, _, _)
overlayLoop(v, sorted, imgOrder, firstImageInput, st, n) ==
    IF n = 0 THEN st
    ELSE overlayStep(v, sorted, imgOrder, firstImageInput,
                     overlayLoop(v, sorted, imgOrder, firstImageInput, st, n - 1),
                     n - 1)

\* the overlay group: nothing when there is no overlay; the final rename back
\* to outv when the loop ended on outv_final
overlayParts(v, srcs) ==
    LET sorted == sortByLayer(collectOverlays(v))
        st == overlayLoop(v, sorted, imageOrder(v, sorted), Len(srcs),
                          [parts |-> << >>, currentOutput |-> "outv"], Len(sorted))
    IN  IF sorted = << >> THEN << >>
        ELSE IF st.currentOutput = "outv_final"
               THEN st.parts \o <<Node(<<"outv_final">>, "null", <<"outv">>)>>
               ELSE st.parts

\* buildOverlayFilterString(video, sourceMap) -> (filterParts, hasAudio)
buildOverlayFilterString(v, srcs) ==
    LET sortedItems == sortClipsByLayer(v.compositeItems)
        valid == validItemsOf(sortedItems, srcs)
        audio == anyAudio(sortedItems)
    IN  IF v.compositeItems = << >> \/ valid = << >>
          THEN [parts |-> << >>, hasAudio |-> FALSE]
          ELSE [parts |-> <<Node(<< >>, "color", <<"base">>)>>
                            \o clipParts(valid, srcs, Len(valid))
                            \o (IF audio
                                  THEN audioMix(audioParts(valid, srcs, Len(valid)))
                                  ELSE << >>)
                            \o overlayParts(v, srcs),
                hasAudio |-> audio]

(***************************************************************************)
(* writeCompositeVideo, step by step                                       *)
(***************************************************************************)
\* largest number of composite items, and of overlays of all kinds together
MaxItems == 2

MaxOverlays == 2

GraphInit ==
    /\ \E nt, ni, nc, ns \in 0..MaxOverlays :
          /\ nt + ni + nc + ns <= MaxOverlays
          /\ video \in [compositeItems : SeqsUpTo(Items, MaxItems),
                        textClips : [1..nt -> TextClips],
                        imageClips : [1..ni -> ImageClips],
                        colorClips : [1..nc -> ColorClips],
                        subtitleClips : [1..ns -> SubtitleClips]]
    /\ gpc = "start"
    /\ sourceMap = << >>
    /\ sources = << >>
    /\ filterParts = << >>
    /\ hasAudio = FALSE
    /\ mapArgs = << >>

\* if len(video.compositeItems) == 0 { return error }
WriteNoClips ==
    /\ gpc = "start"
    /\ video.compositeItems = << >>
    /\ gpc' = "error"
    /\ UNCHANGED <<notGraph, video, sourceMap, sources, filterParts, hasAudio, mapArgs>>

\* the source map, then "-i source" for every source and for every image clip
WriteBuildInputs ==
    /\ gpc = "start"
    /\ video.compositeItems # << >>
    /\ sourceMap' = buildSources(video.compositeItems)
    /\ sources' = buildSources(video.compositeItems)
                    \o buildImageInputs(video.imageClips)
    /\ gpc' = "inputs"
    /\ UNCHANGED <<notGraph, video, filterParts, hasAudio, mapArgs>>

\* filterComplex, hasAudio := buildOverlayFilterString(video, sourceMap)
WriteBuildFilter ==
    /\ gpc = "inputs"
    /\ LET built == buildOverlayFilterString(video, sourceMap)
       IN  /\ filterParts' = built.parts
           /\ hasAudio' = built.hasAudio
    /\ gpc' = "built"
    /\ UNCHANGED <<notGraph, video, sourceMap, sources, mapArgs>>

\* -map [outv], and -map [outa] when hasAudio
WriteMapOutputs ==
    /\ gpc = "built"
    /\ mapArgs' = IF hasAudio THEN <<"outv", "outa">> ELSE <<"outv">>
    /\ gpc' = "mapped"
    /\ UNCHANGED <<notGraph, video, sourceMap, sources, filterParts, hasAudio>>

GraphNext ==
    \/ WriteNoClips
    \/ WriteBuildInputs
    \/ WriteBuildFilter
    \/ WriteMapOutputs

GraphSpecInit == PipeIdle /\ ChunkIdle /\ GraphInit /\ CallIdle

GraphSpec == GraphSpecInit /\ [][GraphNext]_vars

(***************************************************************************)
(* workerPool.processFrame alone: every buffer length and worker count     *)
(***************************************************************************)
ChunkInit ==
    /\ cL \in {4 * n : n \in 0..MaxChunkPixels}
    /\ cP \in 1..MaxChunkWorkers
    /\ cpc = "build"
    /\ cWorker = 0
    /\ cChunks = << >>
    /\ cRun = {}
    /\ cCalls = freshCalls(cL)
    /\ cPanic = FALSE

\* one iteration of: for worker := 0; worker < wp.workers; worker++ { wp.tasks <- ... }
ChunkBuild ==
    /\ cpc = "build"
    /\ cChunks' = Append(cChunks, [start |-> chunkStart(cL, cP, cWorker),
                                   end |-> chunkEnd(cL, cP, cWorker)])
    /\ cWorker' = cWorker + 1
    /\ cpc' = IF cWorker + 1 = cP THEN "run" ELSE "build"
    /\ UNCHANGED <<notChunk, cL, cP, cRun, cCalls, cPanic>>

\* a worker takes one of the chunks and runs the filter over it
ChunkRun ==
    /\ cpc = "run"
    /\ \E k \in (1..cP) \ cRun :
          /\ cCalls' = runChunk(cCalls, cChunks[k].start, cChunks[k].end)
          /\ cPanic' = (cPanic \/ chunkPanics(cL, cChunks[k].start, cChunks[k].end))
          /\ cRun' = cRun \cup {k}
          /\ cpc' = IF cRun \cup {k} = 1..cP THEN "done" ELSE "run"
    /\ UNCHANGED <<notChunk, cL, cP, cWorker, cChunks>>

ChunkNext == ChunkBuild \/ ChunkRun

ChunkSpecInit == PipeIdle /\ ChunkInit /\ GraphIdle /\ CallIdle

ChunkSpec == ChunkSpecInit /\ [][ChunkNext]_vars

(***************************************************************************)
(* Properties of processFrameLoop                                          *)
(***************************************************************************)
\* what a frame holds once the processor is through with it
ExpectedCalls ==
    IF composedFilter THEN oncePerPixel(frameSize) ELSE freshCalls(frameSize)

framesUpTo(n) == [k \in 1..n |-> [src |-> k - 1, calls |-> ExpectedCalls]]

\* the frames bufferedWriter.Write accepted, in order
written == out \o wbuf

writeFailed == \E i \in 1..Len(errLog) : errLog[i].stage = "write"

TasksInFlight ==
    ({tasks[i] : i \in 1..Len(tasks)} \cup {wtask[w] : w \in Workers}) \ {NoTask}

queuedBuffers == {processChan[i].buffer : i \in 1..Len(processChan)}

pooledBuffers == {pooled[i] : i \in 1..Len(pooled)}

\* C1: the k-th frame written is the k-th frame read, with the composed filter
\* applied once to every pixel, in every state of every interleaving; and a run
\* without I/O error that read N complete frames delivers exactly N frames.
C1_FramesWrittenInReadOrder ==
    /\ written = framesUpTo(Len(written))
    /\ (wpc = "done" /\ inputEnd \in {"eof", "short"} /\ ~bufErr)
          => Len(out) = frameIndex

C1_Witness ==
    /\ wpc = "done"
    /\ composedFilter
    /\ inputEnd = "eof"
    /\ ~bufErr
    /\ Len(out) = MaxFrames

\* C2: once a write has failed, the pipeline is never stuck: until
\* processFrameLoop has returned, some stage can take a step.
C2_NeverStuckAfterWriteError ==
    (writeFailed /\ wpc # "done") => ENABLED Next

\* C5: pipelineErr is the error of the first setError call, whatever follows;
\* the value returned is that error, and it is returned only once the reader
\* and the processor goroutines have stopped.
C5_FirstErrorWins ==
    /\ pipelineErr = (IF errLog = << >> THEN Nil ELSE errLog[1])
    /\ wpc = "done" => (result = pipelineErr /\ rpc = "done" /\ ppc = "done")

C5_Witness ==
    /\ wpc = "done"
    /\ Len(errLog) = 3
    /\ errLog[1].stage = "read"
    /\ errLog[2].stage = "write"
    /\ result = errLog[1]

\* C6: each queue holds at most pipelineDepth frames and at most
\* 2*pipelineDepth + 3 buffers are acquired and not yet returned to the pool.
MaxOutstanding == 2 * pipelineDepth + 3

C6_BoundedQueuesAndBuffers ==
    /\ Len(readChan) <= pipelineDepth
    /\ Len(processChan) <= pipelineDepth
    /\ outstanding <= MaxOutstanding

C6_Witness ==
    /\ Len(readChan) = pipelineDepth
    /\ Len(processChan) = pipelineDepth
    /\ outstanding = MaxOutstanding
    /\ outstanding = 9

\* C8: every chunk task queued or running belongs to the one frame the
\* processor holds, never to a frame queued for the writer, held by the writer
\* or returned to the pool; and the processor sends a frame on only when all
\* its chunk tasks have signalled done.
C8_ChunksOfOneFrameOnly ==
    /\ \A t \in TasksInFlight :
          /\ ppc \in {"dispatch", "wait"}
          /\ t.buffer = pframe.buffer
          /\ t.buffer # wframe.buffer
          /\ t.buffer \notin queuedBuffers
          /\ t.buffer \notin pooledBuffers
    /\ (ppc = "send" /\ composedFilter)
          => /\ TasksInFlight = {}
             /\ doneChan = 0
             /\ mem[pframe.buffer].calls = oncePerPixel(frameSize)

C8_Witness ==
    /\ wpc = "write"
    /\ processChan # << >>
    /\ pooled # << >>
    /\ \A w \in Workers : wtask[w] # NoTask

\* C9: the input ending at a frame boundary or inside a frame records no
\* error; with no write failure the run then returns nil after writing every
\* complete frame and nothing of the partial one; a read error at frame k
\* returns that error after frames 0..k-1 were written.
C9_CleanEndAndReadError ==
    /\ inputEnd \in {"eof", "short"}
          => \A i \in 1..Len(errLog) : errLog[i].stage # "read"
    /\ (wpc = "done" /\ ~bufErr)
          => /\ out = framesUpTo(frameIndex)
             /\ inputEnd \in {"eof", "short"} => result = Nil
             /\ inputEnd = "error" => result = readError(frameIndex)

C9_Witness ==
    /\ wpc = "done"
    /\ inputEnd = "short"
    /\ result = Nil
    /\ frameIndex > bufFrames
    /\ Len(out) = frameIndex

\* C10: once the caller has closed both streams, the pipeline is never stuck:
\* until processFrameLoop has returned, some stage can take a step.
C10_NeverStuckAfterAbort ==
    (aborted /\ wpc # "done") => ENABLED Next

(***************************************************************************)
(* Properties of workerPool.processFrame                                   *)
(***************************************************************************)
\* C7: the chunks are contiguous from 0, every boundary is a multiple of 4,
\* they are pairwise disjoint and cover [0, L); the filter is called exactly
\* once at the first byte of every pixel and nowhere else.
C7_ChunksPartitionPixels ==
    /\ \A k \in 1..Len(cChunks) :
          /\ cChunks[k].start % 4 = 0
          /\ cChunks[k].end % 4 = 0
          /\ cChunks[k].start <= cChunks[k].end
          /\ cChunks[k].start = (IF k = 1 THEN 0 ELSE cChunks[k - 1].end)
          /\ \A j \in 1..(k - 1) : cChunks[j].end <= cChunks[k].start
    /\ cpc \in {"run", "done"} => (Len(cChunks) = cP /\ cChunks[cP].end = cL)
    /\ ~cPanic
    /\ cpc = "done" => cCalls = oncePerPixel(cL)

C7_Witness ==
    /\ cpc = "done"
    /\ cP > 1
    /\ cL > 0
    /\ cL \div cP < 4
    /\ cCalls = oncePerPixel(cL)

(***************************************************************************)
(* Properties of the compiled filter graph                                 *)
(***************************************************************************)
labelsOf(seq) == {seq[i] : i \in 1..Len(seq)}

\* [k:v] or [k:a] of one of the inputs handed to the engine
isEngineInput(l) ==
    \E k \in 0..(Len(sources) - 1) : l = videoIn(k) \/ l = audioIn(k)

producers(l) == {n \in 1..Len(filterParts) : l \in labelsOf(filterParts[n].outs)}

consumers(l) == {n \in 1..Len(filterParts) : l \in labelsOf(filterParts[n].ins)}

\* C3: every label a node takes as input is an engine input or the output
\* label of a node emitted earlier in the sequence.
C3_InputsAreProducedEarlier ==
    gpc \in {"built", "mapped"} =>
        \A n \in 1..Len(filterParts) :
            \A l \in labelsOf(filterParts[n].ins) :
                isEngineInput(l) \/ \E m \in producers(l) : m < n

\* C4: in every non-empty graph, outv is the output of exactly one node and
\* the input of none.
C4_OneTerminalVideoLabel ==
    (gpc \in {"built", "mapped"} /\ filterParts # << >>) =>
        /\ Cardinality(producers("outv")) = 1
        /\ consumers("outv") = {}

(***************************************************************************)
(* sort.Slice(s, func(i, j) bool { return s[i].layer < s[j].layer }), as   *)
(* sortClipsByLayer and the overlay sorts call it: insertion sort up to    *)
(* maxInsertion elements, a pattern-defeating quicksort above              *)
(***************************************************************************)
maxInsertion == 12

less(x, y) == x.layer < y.layer

swap(s, i, j) == [s EXCEPT ![i] = s[j], ![j] = s[i]]

insertionSort(s) == sortByLayer(s)

\* partialInsertionSort on a range shorter than 50: true exactly when the range
\* is already in order, and the range is left as it is
isSorted(s) == \A i \in 2..Len(s) : ~less(s[i], s[i - 1])

order2(s, a, b) == IF less(s[b], s[a]) THEN <<b, a>> ELSE <<a, b>>

median(s, a, b, c) ==
    LET ab == order2(s, a, b)
        bc == order2(s, ab[2], c)
    IN  order2(s, ab[1], bc[1])[2]

\* choosePivot on a range of 8 to 49 elements: the median of the elements at
\* one, two and three quarters (positions counted from 1 here)
choosePivot(s) ==
    LET q == Len(s) \div 4
    IN  median(s, q + 1, 2 * q + 1, 3 * q + 1)

\* for i <= j && less(data[i], data[a]) { i++ }
RECURSIVE scanUp(_, _, _)
scanUp(s, i, j) == IF i <= j /\ less(s[i], s[1]) THEN scanUp(s, i + 1, j) ELSE i

\* for i <= j && !less(data[j], data[a]) { j-- }
RECURSIVE scanDown(_, _, _)
scanDown(s, i, j) == IF i <= j /\ ~less(s[j], s[1]) THEN scanDown(s, i, j - 1) ELSE j

RECURSIVE partitionLoop(_, _, _)
partitionLoop(s, i, j) ==
    LET i2 == scanUp(s, i, j)
        j2 == scanDown(s, i2, j)
    IN  IF i2 > j2 THEN [data |-> swap(s, j2, 1), mid |-> j2]
        ELSE partitionLoop(swap(s, i2, j2), i2 + 1, j2 - 1)

\* partition: the pivot goes to the front, smaller elements are swapped to the
\* left of the others, the pivot is swapped to its place mid
partition(s, pivot) == partitionLoop(swap(s, 1, pivot), 2, Len(s))

\* pdqsort on a slice of maxInsertion + 1 elements: one partition leaves two
\* ranges of at most maxInsertion elements, each insertion-sorted
pdqsort(s) ==
    IF Len(s) <= maxInsertion THEN insertionSort(s)
    ELSE IF isSorted(s) THEN s
    ELSE LET p == partition(s, choosePivot(s))
         IN  insertionSort(SubSeq(p.data, 1, p.mid - 1))
               \o <<p.data[p.mid]>>
               \o insertionSort(SubSeq(p.data, p.mid + 1, Len(s)))

\* the slice handed to the sort: element i of the declaration order with its layer
slice(layers) == [i \in 1..Len(layers) |-> [layer |-> layers[i], index |-> i]]

SortInit ==
    /\ fn = "sortClipsByLayer"
    /\ \E n \in 0..(maxInsertion + 1) : args \in [1..n -> {0, 1}]
    /\ ret = << >>
    /\ started = << >>

SortCall ==
    /\ fn = "sortClipsByLayer"
    /\ ret = << >>
    /\ ret' = <<pdqsort(slice(args))>>
    /\ UNCHANGED <<notCall, fn, args, started>>

SortNext == SortCall

SortSpecInit == PipeIdle /\ ChunkIdle /\ GraphIdle /\ SortInit

SortSpec == SortSpecInit /\ [][SortNext]_vars

(***************************************************************************)
(* Video.WriteVideo: the choice of the execution strategy, the checks each *)
(* strategy makes, and the engine commands it starts                       *)
(***************************************************************************)
\* float64 arguments are integers in units of 0.0001; "%.3f" keeps three
\* decimals, so a formatted number is an integer in units of 0.001.  The
\* argument sets hold no value midway between two thousandths, where the
\* rounding of "%.3f" depends on the binary expansion.
format3(x) == IF x >= 0 THEN (x + 5) \div 10 ELSE -((5 - x) \div 10)

\* the clips a lazy concatenation may hold: filters is len(filters) +
\* len(customFilters), startTime > 0 is a trim; times are in units of 0.0001 s
Members ==
    {[filename |-> "a.mp4", duration |-> 50000, startTime |-> 0, endTime |-> 0,
      filters |-> 0, audio |-> TRUE],
     [filename |-> "b.mp4", duration |-> 50000, startTime |-> 0, endTime |-> 0,
      filters |-> 0, audio |-> FALSE],
     [filename |-> "a.mp4", duration |-> 50000, startTime |-> 10000, endTime |-> 0,
      filters |-> 0, audio |-> TRUE],
     [filename |-> "b.mp4", duration |-> 50000, startTime |-> 0, endTime |-> 0,
      filters |-> 1, audio |-> FALSE],
     [filename |-> "", duration |-> 50000, startTime |-> 0, endTime |-> 0,
      filters |-> 0, audio |-> FALSE],
     [filename |-> "a.mp4", duration |-> 0, startTime |-> 0, endTime |-> 0,
      filters |-> 0, audio |-> TRUE]}

\* largest number of clips in a concatenation
MaxMembers == 2

\* a command line handed to the engine
Command(inputs, filterComplex, codec) ==
    [inputs |-> inputs, filterComplex |-> filterComplex, codec |-> codec]

\* concatenateWithFilterComplex: the clips with a filename and a positive duration
RECURSIVE validVideosOf(_)
validVideosOf(videos) ==
    IF videos = << >> THEN << >>
    ELSE LET before == validVideosOf(SubSeq(videos, 1, Len(videos) - 1))
             v == videos[Len(videos)]
         IN  IF v.filename # "" /\ v.duration > 0 THEN Append(before, v) ELSE before

\* concatenateWithFilterComplex: the distinct filenames in first-seen order
RECURSIVE concatSources(_)
concatSources(videos) ==
    IF videos = << >> THEN << >>
    ELSE LET before == concatSources(SubSeq(videos, 1, Len(videos) - 1))
             f == videos[Len(videos)].filename
         IN  IF indexOf(before, f) # -1 THEN before ELSE Append(before, f)

concatHasAudio(videos) == \E i \in 1..Len(videos) : videos[i].audio

\* buildFilterString: startTime > 0 || endTime > 0
isSubclip(v) == v.startTime > 0 \/ v.endTime > 0

\* buildFilterString: the d= of the silence of a clip without audio, as "%.3f"
\* prints it
silenceDuration(v) ==
    LET duration == v.endTime - v.startTime
    IN  format3(IF duration <= 0 THEN v.duration ELSE duration)

\* buildFilterString: one video chain per clip, one audio chain per clip when any
\* clip has audio, then the concat node
videoChains(videos, srcs) ==
    [i \in 1..Len(videos) |->
        Node(<<videoIn(indexOf(srcs, videos[i].filename))>>,
             IF isSubclip(videos[i]) THEN "trim" ELSE "copy",
             <<label("v", i - 1)>>)]

\* the audio chains without the silence of the clips that have no audio
audioChainsOfAudioClips(videos, srcs) ==
    SelectSeq([i \in 1..Len(videos) |->
                  IF videos[i].audio
                    THEN Node(<<audioIn(indexOf(srcs, videos[i].filename))>>,
                              IF isSubclip(videos[i]) THEN "atrim" ELSE "acopy",
                              <<label("a", i - 1)>>)
                    ELSE Node(<< >>, "none", << >>)],
              LAMBDA n : n.op # "none")

audioChains(videos, srcs) ==
    [i \in 1..Len(videos) |->
        IF videos[i].audio
          THEN Node(<<audioIn(indexOf(srcs, videos[i].filename))>>,
                    IF isSubclip(videos[i]) THEN "atrim" ELSE "acopy",
                    <<label("a", i - 1)>>)
          ELSE Node(<< >>, label("aevalsrc=0:d=", silenceDuration(videos[i])),
                    <<label("a", i - 1)>>)]

RECURSIVE concatInputs(_, _)
concatInputs(n, audio) ==
    IF n = 0 THEN << >>
    ELSE concatInputs(n - 1, audio)
           \o <<label("v", n - 1)>>
           \o (IF audio THEN <<label("a", n - 1)>> ELSE << >>)

buildFilterString(videos, srcs) ==
    LET audio == concatHasAudio(videos)
    IN  videoChains(videos, srcs)
          \o (IF audio THEN audioChains(videos, srcs) ELSE << >>)
          \o <<Node(concatInputs(Len(videos), audio), "concat",
                    IF audio THEN <<"outv", "outa">> ELSE <<"outv">>)>>

\* the Video handed to WriteVideo with the output path of the parameters
Dimensions ==
    [outputPath : {"", "out.mp4"}, width : {0, 640}, height : {0, 480},
     duration : {0, 5}, fps : {0, 30},
     parms : {[Codec |-> "", Fps |-> 0], [Codec |-> "vp9", Fps |-> 24]}]

\* the Video WriteVideo is called on, with the VideoParameters of the call
\* (outputPath, parms)
PlainVideo(d) ==
    [outputPath |-> d.outputPath, parms |-> d.parms, width |-> d.width, height |-> d.height,
     duration |-> d.duration, fps |-> d.fps, codec |-> "h264", filename |-> "",
     sourceVideos |-> << >>, isComposited |-> FALSE, compositeItems |-> << >>,
     hasText |-> FALSE, colorClips |-> << >>]

WriteInit ==
    /\ fn = "WriteVideo"
    /\ \E d \in Dimensions :
          \/ \E m \in SeqsUpTo(Members, MaxMembers) \ {<< >>} :
                args = [PlainVideo(d) EXCEPT !.sourceVideos = m]
          \/ \E c \in SeqsUpTo(Items, MaxItems) :
                args = [PlainVideo(d) EXCEPT !.isComposited = TRUE,
                                             !.compositeItems = c]
          \/ \E f \in {"", "a.mp4"}, t \in BOOLEAN,
                c \in {<< >>, <<[isOverlay |-> FALSE]>>, <<[isOverlay |-> TRUE]>>} :
                args = [PlainVideo(d) EXCEPT !.filename = f, !.hasText = t,
                                             !.colorClips = c]
    /\ ret = << >>
    /\ started = << >>

\* the order in which WriteVideo picks the strategy
isConcatenated(v) == Len(v.sourceVideos) > 0

isComposite(v) == ~isConcatenated(v) /\ v.isComposited /\ Len(v.compositeItems) > 0

isStandaloneColor(v) ==
    /\ ~isConcatenated(v) /\ ~isComposite(v)
    /\ v.filename = "" /\ Len(v.colorClips) = 1 /\ ~v.colorClips[1].isOverlay

hasOverlays(v) ==
    /\ ~isConcatenated(v) /\ ~isComposite(v) /\ ~isStandaloneColor(v)
    /\ (v.hasText \/ v.colorClips # << >>)

isPlain(v) ==
    ~isConcatenated(v) /\ ~isComposite(v) /\ ~isStandaloneColor(v) /\ ~hasOverlays(v)

\* if parms.OutputPath == "" { return error }
WriteVideoNoOutputPath ==
    /\ fn = "WriteVideo"
    /\ args.outputPath = ""
    /\ ret' = <<"error">>
    /\ fn' = "return"
    /\ UNCHANGED <<notCall, args, started>>

WriteVideoConcatenated ==
    /\ fn = "WriteVideo"
    /\ args.outputPath # ""
    /\ isConcatenated(args)
    /\ fn' = "writeConcatenatedVideo"
    /\ UNCHANGED <<notCall, args, ret, started>>

WriteVideoComposite ==
    /\ fn = "WriteVideo"
    /\ args.outputPath # ""
    /\ isComposite(args)
    /\ fn' = "writeCompositeVideo"
    /\ UNCHANGED <<notCall, args, ret, started>>

WriteVideoStandaloneColor ==
    /\ fn = "WriteVideo"
    /\ args.outputPath # ""
    /\ isStandaloneColor(args)
    /\ fn' = "writeStandaloneColorClip"
    /\ UNCHANGED <<notCall, args, ret, started>>

WriteVideoOverlays ==
    /\ fn = "WriteVideo"
    /\ args.outputPath # ""
    /\ hasOverlays(args)
    /\ fn' = "writeVideoWithTextFilters"
    /\ UNCHANGED <<notCall, args, ret, started>>

\* the first checks of the frame pipeline strategy: filename, dimensions, duration
propertiesValid(v) == v.filename # "" /\ v.width > 0 /\ v.height > 0 /\ v.duration > 0

\* "Apply parameters to video": the setters write the fields of the Video
applyParameters(v) ==
    [v EXCEPT !.codec = IF v.parms.Codec # "" THEN v.parms.Codec ELSE v.codec,
              !.fps = IF v.parms.Fps # 0 THEN v.parms.Fps ELSE v.fps]

\* all checks of the strategy: the fps is checked after the parameters are applied
pipelineChecksPass(v) == propertiesValid(v) /\ applyParameters(v).fps > 0

WriteVideoInvalid ==
    /\ fn = "WriteVideo"
    /\ args.outputPath # ""
    /\ isPlain(args)
    /\ ~pipelineChecksPass(args)
    /\ args' = IF propertiesValid(args) THEN applyParameters(args) ELSE args
    /\ ret' = <<"error">>
    /\ fn' = "return"
    /\ UNCHANGED <<notCall, started>>

\* createTempFiles, which may fail, then processVideoFrames
WriteVideoPipeline ==
    /\ fn = "WriteVideo"
    /\ args.outputPath # ""
    /\ isPlain(args)
    /\ pipelineChecksPass(args)
    /\ args' = applyParameters(args)
    /\ \/ fn' = "processVideoFrames" /\ ret' = ret
       \/ fn' = "return" /\ ret' = <<"error">>
    /\ UNCHANGED <<notCall, started>>

\* concatenateWithFilterComplex: no valid clip
ConcatenatedNoValidVideos ==
    /\ fn = "writeConcatenatedVideo"
    /\ validVideosOf(args.sourceVideos) = << >>
    /\ ret' = <<"error">>
    /\ fn' = "return"
    /\ UNCHANGED <<notCall, args, started>>

\* concatenateWithFilterComplex: the graph is built and the engine runs with
\* -filter_complex and -c:v <encoder>
ConcatenatedRun ==
    /\ fn = "writeConcatenatedVideo"
    /\ validVideosOf(args.sourceVideos) # << >>
    /\ LET videos == validVideosOf(args.sourceVideos)
           srcs == concatSources(videos)
       IN  started' = Append(started,
                             Command(srcs, buildFilterString(videos, srcs), "encode"))
    /\ \E r \in {"ok", "error"} : ret' = <<r>>
    /\ fn' = "return"
    /\ UNCHANGED <<notCall, args>>

\* writeCompositeVideo, reached with at least one item
CompositeRun ==
    /\ fn = "writeCompositeVideo"
    /\ LET srcs == buildSources(args.compositeItems)
           v == [compositeItems |-> args.compositeItems, textClips |-> << >>,
                 imageClips |-> << >>, colorClips |-> << >>, subtitleClips |-> << >>]
       IN  started' = Append(started,
                             Command(srcs, buildOverlayFilterString(v, srcs).parts,
                                     "encode"))
    /\ \E r \in {"ok", "error"} : ret' = <<r>>
    /\ fn' = "return"
    /\ UNCHANGED <<notCall, args>>

\* writeStandaloneColorClip: -f lavfi -i color=...
StandaloneColorRun ==
    /\ fn = "writeStandaloneColorClip"
    /\ started' = Append(started, Command(<<"color">>, << >>, "encode"))
    /\ \E r \in {"ok", "error"} : ret' = <<r>>
    /\ fn' = "return"
    /\ UNCHANGED <<notCall, args>>

\* writeVideoWithTextFilters: -i filename and the overlay chain
OverlaysRun ==
    /\ fn = "writeVideoWithTextFilters"
    /\ started' = Append(started,
                         Command(<<args.filename>>,
                                 <<Node(<<"0:v">>, "overlays", <<"outv">>)>>, "encode"))
    /\ \E r \in {"ok", "error"} : ret' = <<r>>
    /\ fn' = "return"
    /\ UNCHANGED <<notCall, args>>

\* processVideoFrames: the decoder and the encoder are started, then the frames
\* go through processFrameLoop
PipelineRun ==
    /\ fn = "processVideoFrames"
    /\ started' = started \o <<Command(<<args.filename>>, << >>, "rawvideo"),
                               Command(<<"pipe:0">>, << >>, "encode")>>
    /\ \E r \in {"ok", "error"} : ret' = <<r>>
    /\ fn' = "return"
    /\ UNCHANGED <<notCall, args>>

WriteNext ==
    \/ WriteVideoNoOutputPath
    \/ WriteVideoConcatenated
    \/ WriteVideoComposite
    \/ WriteVideoStandaloneColor
    \/ WriteVideoOverlays
    \/ WriteVideoInvalid
    \/ WriteVideoPipeline
    \/ ConcatenatedNoValidVideos
    \/ ConcatenatedRun
    \/ CompositeRun
    \/ StandaloneColorRun
    \/ OverlaysRun
    \/ PipelineRun

WriteSpecInit == PipeIdle /\ ChunkIdle /\ GraphIdle /\ WriteInit

WriteSpec == WriteSpecInit /\ [][WriteNext]_vars

(***************************************************************************)
(* ConcatenateVideos                                                       *)
(***************************************************************************)
\* a *Video as ConcatenateVideos sees it: lazy is sourceVideos != nil; codec and
\* width stand for the properties copied from the first clip
NilVideo ==
    [isNil |-> TRUE, filename |-> "", duration |-> 0, codec |-> "", width |-> 0,
     lazy |-> FALSE, sourceVideos |-> << >>]

RegularVideo(filename, duration, codec, width) ==
    [isNil |-> FALSE, filename |-> filename, duration |-> duration, codec |-> codec,
     width |-> width, lazy |-> FALSE, sourceVideos |-> << >>]

RegularVideos ==
    {RegularVideo("a.mp4", 5, "h264", 640), RegularVideo("b.mp4", 3, "vp9", 1280),
     RegularVideo("", 5, "h264", 640), RegularVideo("a.mp4", 0, "h264", 640)}

\* the loop over videos: nil skipped, a lazy concatenation expanded, a regular
\* video kept when it has a filename and a positive duration
\* the same loop without the sourceVideos branch: a lazy concatenation has no
\* filename and is dropped like any unnamed clip
filterOnly(videos) ==
    SelectSeq(videos, LAMBDA v : ~v.isNil /\ v.filename # "" /\ v.duration > 0)

RECURSIVE flattenValid(_)
flattenValid(videos) ==
    IF videos = << >> THEN << >>
    ELSE LET before == flattenValid(SubSeq(videos, 1, Len(videos) - 1))
             v == videos[Len(videos)]
         IN  IF v.isNil THEN before
             ELSE IF v.lazy THEN before \o v.sourceVideos
             ELSE IF v.filename # "" /\ v.duration > 0 THEN Append(before, v)
             ELSE before

RECURSIVE totalDuration(_)
totalDuration(videos) ==
    IF videos = << >> THEN 0
    ELSE totalDuration(SubSeq(videos, 1, Len(videos) - 1)) + videos[Len(videos)].duration

ConcatenateVideos(videos) ==
    IF Len(videos) = 0 THEN [err |-> TRUE, video |-> NilVideo]
    ELSE LET validVideos == flattenValid(videos)
         IN  IF Len(validVideos) = 0 THEN [err |-> TRUE, video |-> NilVideo]
             ELSE [err |-> FALSE,
                   video |-> [isNil |-> FALSE, filename |-> "",
                              duration |-> totalDuration(validVideos),
                              codec |-> validVideos[1].codec,
                              width |-> validVideos[1].width,
                              lazy |-> TRUE, sourceVideos |-> validVideos]]

\* the lazy concatenations a caller can hold: results of earlier calls
LazyVideos ==
    {ConcatenateVideos(s).video :
        s \in {t \in SeqsUpTo(RegularVideos, MaxMembers) : ~ConcatenateVideos(t).err}}

ConcatInit ==
    /\ fn = "ConcatenateVideos"
    /\ args \in SeqsUpTo({NilVideo} \cup RegularVideos \cup LazyVideos, MaxMembers)
    /\ ret = << >>
    /\ started = << >>

ConcatCall ==
    /\ fn = "ConcatenateVideos"
    /\ ret = << >>
    /\ ret' = <<ConcatenateVideos(args)>>
    /\ UNCHANGED <<notCall, fn, args, started>>

ConcatNext == ConcatCall

ConcatSpecInit == PipeIdle /\ ChunkIdle /\ GraphIdle /\ ConcatInit

ConcatSpec == ConcatSpecInit /\ [][ConcatNext]_vars

(***************************************************************************)
(* linearExpr                                                              *)
(***************************************************************************)
\* the expression string, by its numeric fields:
\* if(lt(t,start),from,if(gte(t,endTime),to,from+(to-from)*((t-start)/duration)))
linearExpr(start, duration, from, to) ==
    IF duration <= 0
    THEN [constant |-> TRUE, start |-> 0, endTime |-> 0, duration |-> 0,
          from |-> format3(from), to |-> 0]
    ELSE [constant |-> FALSE, start |-> format3(start), endTime |-> format3(start + duration),
          duration |-> format3(duration), from |-> format3(from), to |-> format3(to)]

\* a value of the expression: the fraction num/den in units of 0.0001, or the
\* nan/inf that a division by 0.000 gives
Value(num, den) == [nan |-> FALSE, num |-> num, den |-> den]

NotANumber == [nan |-> TRUE, num |-> 0, den |-> 1]

\* FFmpeg's evaluation of the expression at time t (units of 0.0001)
evaluate(e, t) ==
    IF e.constant THEN Value(10 * e.from, 1)
    ELSE IF t < 10 * e.start THEN Value(10 * e.from, 1)
    ELSE IF t >= 10 * e.endTime THEN Value(10 * e.to, 1)
    ELSE IF e.duration = 0 THEN NotANumber
    ELSE Value(10 * e.from * 10 * e.duration + 10 * (e.to - e.from) * (t - 10 * e.start),
               10 * e.duration)

Starts == {0, 4, 10}

Durations == {-10, 0, 4, 20}

Froms == {0, 10}

\* 15708 is 90 degrees in radians, as the rotation animations pass it
Tos == {20, 15708}

Times == {-10, 0, 2, 6, 10, 20, 30}

LinearInit ==
    /\ fn = "linearExpr"
    /\ args \in {<<s, d, f, t>> : s \in Starts, d \in Durations, f \in Froms, t \in Tos}
    /\ ret = << >>
    /\ started = << >>

LinearBuild ==
    /\ fn = "linearExpr"
    /\ ret' = <<linearExpr(args[1], args[2], args[3], args[4])>>
    /\ fn' = "ffmpeg"
    /\ UNCHANGED <<notCall, args, started>>

LinearEvaluate ==
    /\ fn = "ffmpeg"
    /\ \E t \in Times :
          /\ args' = Append(args, t)
          /\ ret' = <<evaluate(ret[1], t)>>
    /\ fn' = "evaluated"
    /\ UNCHANGED <<notCall, started>>

LinearNext == LinearBuild \/ LinearEvaluate

LinearSpecInit == PipeIdle /\ ChunkIdle /\ GraphIdle /\ LinearInit

LinearSpec == LinearSpecInit /\ [][LinearNext]_vars

(***************************************************************************)
(* The built-in pixel filters                                              *)
(***************************************************************************)
\* conversion to uint8; a byte widened to uint32 or int keeps its value, and the
\* weighted sums below are at most 1383 * 255, far inside 32 bits
uint8(x) == x % 256

shr(x, n) == x \div (2 ^ n)

\* data[i], data[i+1], data[i+2] of a Go slice (index from 0) in a sequence
red(data, i) == data[i + 1]

green(data, i) == data[i + 2]

blue(data, i) == data[i + 3]

store(data, i, r, g, b) == [data EXCEPT ![i + 1] = r, ![i + 2] = g, ![i + 3] = b]

inverseColors(data, i) ==
    store(data, i, uint8(255 - red(data, i)), uint8(255 - green(data, i)),
          uint8(255 - blue(data, i)))

blackAndWhite(data, i) ==
    LET r == red(data, i)
        g == green(data, i)
        b == blue(data, i)
        gray == uint8(shr(77 * r + 150 * g + 29 * b, 8))
    IN  store(data, i, gray, gray, gray)

unclamped(x) == x

clamped(x) == IF x > 255 THEN 255 ELSE x

sepiaTone(data, i) ==
    LET r == red(data, i)
        g == green(data, i)
        b == blue(data, i)
        newRed == clamped(shr(402 * r + 787 * g + 194 * b, 10))
        newGreen == clamped(shr(357 * r + 702 * g + 172 * b, 10))
        newBlue == clamped(shr(278 * r + 547 * g + 134 * b, 10))
    IN  store(data, i, uint8(newRed), uint8(newGreen), uint8(newBlue))

edgeDetection(data, i) ==
    LET avg == (red(data, i) + green(data, i) + blue(data, i)) \div 3
    IN  IF avg > 85 /\ avg < 170 THEN store(data, i, 255, 255, 255)
        ELSE store(data, i, 0, 0, 0)

\* channel values around the thresholds and the ends of the byte range
Channels == {0, 85, 86, 170, 171, 255}

Alphas == {0, 200}

Neighbours == {<<1, 2, 3, 4>>, <<255, 254, 253, 0>>}

\* a frame of two RGBA pixels and the byte index of the pixel filtered
FilterInit ==
    /\ fn \in {"inverseColors", "blackAndWhite", "sepiaTone", "edgeDetection"}
    /\ \E r, g, b \in Channels, a \in Alphas, other \in Neighbours :
          args \in {<< <<r, g, b, a>> \o other, 0 >>, << other \o <<r, g, b, a>>, 4 >>}
    /\ ret = << >>
    /\ started = << >>

InverseColors ==
    /\ fn = "inverseColors"
    /\ ret = << >>
    /\ ret' = <<inverseColors(args[1], args[2])>>
    /\ UNCHANGED <<notCall, fn, args, started>>

BlackAndWhite ==
    /\ fn = "blackAndWhite"
    /\ ret = << >>
    /\ ret' = <<blackAndWhite(args[1], args[2])>>
    /\ UNCHANGED <<notCall, fn, args, started>>

SepiaTone ==
    /\ fn = "sepiaTone"
    /\ ret = << >>
    /\ ret' = <<sepiaTone(args[1], args[2])>>
    /\ UNCHANGED <<notCall, fn, args, started>>

EdgeDetection ==
    /\ fn = "edgeDetection"
    /\ ret = << >>
    /\ ret' = <<edgeDetection(args[1], args[2])>>
    /\ UNCHANGED <<notCall, fn, args, started>>

FilterNext == InverseColors \/ BlackAndWhite \/ SepiaTone \/ EdgeDetection

FilterSpecInit == PipeIdle /\ ChunkIdle /\ GraphIdle /\ FilterInit

FilterSpec == FilterSpecInit /\ [][FilterNext]_vars

(***************************************************************************)
(* The chain of one composite item: video trim, overlay gate, audio trim   *)
(***************************************************************************)
\* times are whole seconds, which "%.3f" writes exactly.  clipStart, clipEnd
\* and clipDuration are the clip's GetStartTime, GetEndTime and GetDuration;
\* duration and startTime are the fields of the CompositeClipItem
ClipItems ==
    [clipStart : {0, 2}, clipEnd : {0, 5}, clipDuration : {0, 3, 10},
     duration : {0, 2, 10}, startTime : {0, 4}, audio : BOOLEAN]

\* no upper end
Forever == 1000

\* the source window [lo, hi) a trim node keeps
Window(lo, hi) == [lo |-> lo, hi |-> hi]

subclipNeedsTrim(item) == item.clipStart > 0 \/ item.clipEnd > 0

\* the video chain of the item: trim=start:end, trim=start:duration, or setpts only
videoTrim(item) ==
    LET subclip == subclipNeedsTrim(item)
        trimEnd0 == IF subclip /\ item.clipEnd > 0 THEN item.clipEnd ELSE 0
        trimDuration0 == IF ~subclip THEN 0
                         ELSE IF item.clipEnd > 0 THEN item.clipEnd - item.clipStart
                         ELSE item.clipDuration
        needsTrim == subclip \/ item.duration > 0
        trimStart == IF subclip THEN item.clipStart ELSE 0
        trimDuration == IF item.duration > 0 THEN item.duration ELSE trimDuration0
        trimEnd == IF item.duration > 0 /\ subclip /\ trimEnd0 > 0
                   THEN trimStart + item.duration ELSE trimEnd0
    IN  IF needsTrim /\ trimEnd > 0 THEN Window(trimStart, trimEnd)
        ELSE IF needsTrim /\ trimDuration > 0 THEN Window(trimStart, trimStart + trimDuration)
        ELSE Window(0, Forever)

\* the audio chain: atrim=start:duration whenever a trim is needed; the engine
\* reads duration=0.000 as no limit
audioTrim(item) ==
    LET subclip == subclipNeedsTrim(item)
        needsTrim == subclip \/ item.duration > 0
        trimStart == IF subclip THEN item.clipStart ELSE 0
        trimDuration == IF item.duration > 0 THEN item.duration
                        ELSE IF subclip /\ item.clipEnd > 0 THEN item.clipEnd - item.clipStart
                        ELSE item.clipDuration
    IN  IF ~needsTrim THEN Window(0, Forever)
        ELSE IF trimDuration > 0 THEN Window(trimStart, trimStart + trimDuration)
        ELSE Window(trimStart, Forever)

\* the enable option of the overlay node: none, or gte(t,startTime)
overlayEnable(item) ==
    IF item.startTime > 0 THEN [gated |-> TRUE, from |-> item.startTime]
    ELSE [gated |-> FALSE, from |-> 0]

\* the engine draws the overlay at time t
enabledAt(enable, t) == ~enable.gated \/ t >= enable.from

ItemInit ==
    /\ fn = "videoFilter"
    /\ args \in {<<item>> : item \in ClipItems}
    /\ ret = << >>
    /\ started = << >>

ItemVideoFilter ==
    /\ fn = "videoFilter"
    /\ started' = <<videoTrim(args[1])>>
    /\ fn' = "overlayFilter"
    /\ UNCHANGED <<notCall, args, ret>>

ItemOverlayFilter ==
    /\ fn = "overlayFilter"
    /\ ret' = <<overlayEnable(args[1])>>
    /\ fn' = "audioFilter"
    /\ UNCHANGED <<notCall, args, started>>

ItemAudioFilter ==
    /\ fn = "audioFilter"
    /\ args[1].audio
    /\ started' = Append(started, audioTrim(args[1]))
    /\ fn' = "mixed"
    /\ UNCHANGED <<notCall, args, ret>>

ItemNext == ItemVideoFilter \/ ItemOverlayFilter \/ ItemAudioFilter

ItemSpecInit == PipeIdle /\ ChunkIdle /\ GraphIdle /\ ItemInit

ItemSpec == ItemSpecInit /\ [][ItemNext]_vars

(***************************************************************************)
(* The composite builder: AddClip and the item setters                     *)
(***************************************************************************)
\* times are in half seconds.  An item is shared by pointer between the caller
\* and v.compositeItems, so a setter acts on the element of the slice
BuilderItems ==
    [video : BOOLEAN, clipDuration : {4, 7}, startTime : {0, 3}, duration : {0, 2}]

MaxClips == 2

fps == 25

RECURSIVE calculateCompositeDuration(_)
calculateCompositeDuration(items) ==
    IF items = << >> THEN 0
    ELSE LET maxDuration == calculateCompositeDuration(SubSeq(items, 1, Len(items) - 1))
             item == items[Len(items)]
             clipDuration == IF item.duration = 0 THEN item.clipDuration ELSE item.duration
             endTime == item.startTime + clipDuration
         IN  IF ~item.video THEN maxDuration
             ELSE IF endTime > maxDuration THEN endTime ELSE maxDuration

\* uint64(float64(v.fps) * v.duration) for a duration d in half seconds
framesOf(d) == (fps * d) \div 2

BuilderInit ==
    /\ fn = "builder"
    /\ args = <<[isComposited |-> FALSE, compositeItems |-> << >>, duration |-> 0, frames |-> 0]>>
    /\ ret = << >>
    /\ started = << >>

AddClip ==
    /\ fn = "builder"
    /\ Len(args[1].compositeItems) < MaxClips
    /\ \E item \in BuilderItems :
          LET items == Append(args[1].compositeItems, item)
          IN  args' = <<[isComposited |-> TRUE, compositeItems |-> items,
                         duration |-> calculateCompositeDuration(items),
                         frames |-> framesOf(calculateCompositeDuration(items))]>>
    /\ UNCHANGED <<notCall, fn, ret, started>>

SetStartTime ==
    /\ fn = "builder"
    /\ \E i \in 1..Len(args[1].compositeItems), start \in {0, 3} :
          args' = [args EXCEPT ![1].compositeItems[i].startTime = start]
    /\ UNCHANGED <<notCall, fn, ret, started>>

SetDuration ==
    /\ fn = "builder"
    /\ \E i \in 1..Len(args[1].compositeItems), d \in {0, 2} :
          args' = [args EXCEPT ![1].compositeItems[i].duration = d]
    /\ UNCHANGED <<notCall, fn, ret, started>>

BuilderNext == AddClip \/ SetStartTime \/ SetDuration

BuilderSpecInit == PipeIdle /\ ChunkIdle /\ GraphIdle /\ BuilderInit

BuilderSpec == BuilderSpecInit /\ [][BuilderNext]_vars

(***************************************************************************)
(* writeVideoWithTextFilters: the overlay chain over one input video       *)
(***************************************************************************)
\* the Filter values of filter.go
Filters == {"Inverse", "BlackWhite", "Sepia", "Edge", "SepiaTone"}

\* translateFiltersToFFmpeg, one entry: the engine filter emitted, "" for none
translateFilter(f) ==
    CASE f = "Inverse" -> "negate"
      [] f = "BlackWhite" -> "colorchannelmixer"
      [] f \in {"Sepia", "SepiaTone"} -> "colorchannelmixer"
      [] f = "Edge" -> "edgedetect"
      [] OTHER -> ""

\* validateFilterPart on the operation left when the labels are removed: it
\* must contain "=" or one of the listed names.  transform and image stand for
\* scale=..., rotate=... chains, which contain "="
hasFilterOps(op) ==
    op \in {"trim", "setpts", "overlay", "drawtext", "scale", "subtitles", "ass",
            "colorchannelmixer", "format", "color", "transform", "image"}

validateFilterPart(part) == part.op # "" /\ hasFilterOps(part.op)

allPartsValid(parts) == \A n \in 1..Len(parts) : validateFilterPart(parts[n])

\* the image clips of this strategy: xf is a scale, rotation or opacity being
\* set; without one the image chain is the null pass-through
OverlayImages == [layer : {0}, imagePath : {"", "missing.png", "logo.png"}, xf : BOOLEAN]

imageProcessingPart(imageClip) == IF imageClip.xf THEN "image" ELSE "null"

\* imageClipToInput: input 1, 2, ... in declaration order for the clips with a path
imageInputOf(images, index) ==
    Cardinality({k \in 1..(index + 1) : images[k].imagePath # ""})

\* one iteration of the overlay loop: st is [parts, currentLabel, hasOverlayFilters]
textOverlayStep(v, sorted, st, i) ==
    LET overlay == sorted[i + 1]
        nextLabel == IF i = Len(sorted) - 1 THEN "outv" ELSE label("overlay", i)
        emit(nodes) == [parts |-> st.parts \o emittedFor(nodes, overlay),
                        currentLabel |-> nextLabel, hasOverlayFilters |-> TRUE]
    IN  CASE overlay.clipType = "text" ->
               LET nodes == IF v.textClips[overlay.index + 1].xf
                              THEN buildRotatedScaledTextFilterString(
                                       overlay.index, st.currentLabel, nextLabel)
                              ELSE <<Node(<<st.currentLabel>>, "drawtext", <<nextLabel>>)>>
               IN  IF allPartsValid(nodes) THEN emit(nodes) ELSE st
          [] overlay.clipType = "image" ->
               LET imageClip == v.imageClips[overlay.index + 1]
                   built == buildImageOverlayFilterString(imageClip)
                   nodes == <<Node(<<videoIn(imageInputOf(v.imageClips, overlay.index))>>,
                                   imageProcessingPart(imageClip), <<label("img", i)>>),
                              Node(<<st.currentLabel, label("img", i)>>, "overlay",
                                   <<nextLabel>>)>>
               IN  IF imageClip.imagePath = "" \/ built.err THEN st
                   ELSE IF allPartsValid(nodes) THEN emit(nodes) ELSE st
          [] overlay.clipType = "color" ->
               LET built == replaceAll(
                              replaceAll(
                                buildColorOverlayFilterString(v.colorClips[overlay.index + 1]),
                                "0:v", st.currentLabel),
                              "color", label("color", i))
                   nodes == [n \in 1..Len(built) |->
                               IF n = Len(built) THEN [built[n] EXCEPT !.outs = <<nextLabel>>]
                               ELSE built[n]]
               IN  IF \E n \in 1..Len(nodes) : validateFilterPart(nodes[n])
                     THEN emit(nodes) ELSE st
          [] overlay.clipType = "subtitle" ->
               LET built == buildSubtitleFilterString(v.subtitleClips[overlay.index + 1])
                   part == Node(<<st.currentLabel>>, built.op, <<nextLabel>>)
               IN  IF built.err THEN st
                   ELSE IF validateFilterPart(part) THEN emit(<<part>>) ELSE st

RECURSIVE textOverlayLoop(_, _, _, _)
textOverlayLoop(v, sorted, st, n) ==
    IF n = 0 THEN st
    ELSE textOverlayStep(v, sorted, textOverlayLoop(v, sorted, st, n - 1), n - 1)

\* "Apply existing video filters if any": [0:v]<filters>[filtered], kept only if
\* validateFilterPart accepts it
filteredPart(v) ==
    LET part == Node(<<"0:v">>, translateFilter(v.filters[1]), <<"filtered">>)
    IN  IF v.filters # << >> /\ part.op # "" /\ validateFilterPart(part)
          THEN <<part>> ELSE << >>

\* the filter chain and the label given to -map
buildTextFilters(v) ==
    LET first == filteredPart(v)
        sorted == sortByLayer(collectOverlays(v))
        st == textOverlayLoop(v, sorted,
                              [parts |-> first,
                               currentLabel |-> IF first = << >> THEN "0:v" ELSE "filtered",
                               hasOverlayFilters |-> FALSE],
                              Len(sorted))
        validParts == SelectSeq(st.parts, validateFilterPart)
    IN  [parts |-> validParts,
         map |-> IF validParts = << >> THEN "0:v"
                 ELSE IF st.hasOverlayFilters /\ st.currentLabel = "outv" THEN "outv"
                 ELSE st.currentLabel]

\* WriteVideo takes this strategy only for a video with at least one overlay
TextInit ==
    /\ \E nt, ni, nc, ns \in 0..MaxOverlays :
          /\ nt + ni + nc + ns \in 1..MaxOverlays
          /\ video \in [filename : {"a.mp4"},
                        filters : {<< >>, <<"Inverse">>, <<"BlackWhite">>},
                        textClips : [1..nt -> TextClips],
                        imageClips : [1..ni -> OverlayImages],
                        colorClips : [1..nc -> ColorClips],
                        subtitleClips : [1..ns -> SubtitleClips]]
    /\ gpc = "text"
    /\ sourceMap = << >>
    /\ sources = << >>
    /\ filterParts = << >>
    /\ hasAudio = FALSE
    /\ mapArgs = << >>

\* -i filename, then -loop 1 -t d -i imagePath for every image clip with a path
TextBuildInputs ==
    /\ gpc = "text"
    /\ sources' = <<video.filename>> \o buildImageInputs(video.imageClips)
    /\ gpc' = "textInputs"
    /\ UNCHANGED <<notGraph, video, sourceMap, filterParts, hasAudio, mapArgs>>

\* the filter chain, its validation and -map
TextBuildFilter ==
    /\ gpc = "textInputs"
    /\ filterParts' = buildTextFilters(video).parts
    /\ mapArgs' = <<buildTextFilters(video).map>>
    /\ gpc' = "textBuilt"
    /\ UNCHANGED <<notGraph, video, sourceMap, sources, hasAudio>>

TextNext == TextBuildInputs \/ TextBuildFilter

TextSpecInit == PipeIdle /\ ChunkIdle /\ TextInit /\ CallIdle

TextSpec == TextSpecInit /\ [][TextNext]_vars

(***************************************************************************)
(* concatenateWithFilterComplex and buildFilterString on a list of clips   *)
(***************************************************************************)
\* clips cut to a window [startTime, endTime), or from startTime on, and a clip
\* whose duration is not a whole number of thousandths
Subclips ==
    {[filename |-> "b.mp4", duration |-> 50004, startTime |-> 0, endTime |-> 0,
      filters |-> 0, audio |-> FALSE],
     [filename |-> "b.mp4", duration |-> 50000, startTime |-> 10000, endTime |-> 30000,
      filters |-> 0, audio |-> FALSE],
     [filename |-> "a.mp4", duration |-> 50000, startTime |-> 0, endTime |-> 20000,
      filters |-> 0, audio |-> TRUE],
     [filename |-> "b.mp4", duration |-> 20000, startTime |-> 10000, endTime |-> 0,
      filters |-> 0, audio |-> FALSE]}

FilterStringInit ==
    /\ fn = "concatenateWithFilterComplex"
    /\ args \in SeqsUpTo(Members \cup Subclips, MaxMembers) \ {<< >>}
    /\ ret = << >>
    /\ started = << >>

\* no clip has a filename and a positive duration
FilterStringNoValid ==
    /\ fn = "concatenateWithFilterComplex"
    /\ validVideosOf(args) = << >>
    /\ ret' = <<"error">>
    /\ fn' = "return"
    /\ UNCHANGED <<pvars, cvars, gvars, args, started>>

\* the valid clips replace the list and their files become the engine inputs
FilterStringSources ==
    /\ fn = "concatenateWithFilterComplex"
    /\ validVideosOf(args) # << >>
    /\ args' = validVideosOf(args)
    /\ sources' = concatSources(validVideosOf(args))
    /\ fn' = "buildFilterString"
    /\ UNCHANGED <<pvars, cvars, gpc, video, sourceMap, filterParts, hasAudio, mapArgs,
                   ret, started>>

\* buildFilterString returns the graph and hasAudio; the caller maps outv, and
\* outa when hasAudio
FilterStringBuild ==
    /\ fn = "buildFilterString"
    /\ filterParts' = buildFilterString(args, sources)
    /\ hasAudio' = concatHasAudio(args)
    /\ mapArgs' = IF concatHasAudio(args) THEN <<"outv", "outa">> ELSE <<"outv">>
    /\ fn' = "built"
    /\ UNCHANGED <<pvars, cvars, gpc, video, sourceMap, sources, args, ret, started>>

FilterStringNext == FilterStringNoValid \/ FilterStringSources \/ FilterStringBuild

FilterStringSpecInit == PipeIdle /\ ChunkIdle /\ GraphIdle /\ FilterStringInit

FilterStringSpec == FilterStringSpecInit /\ [][FilterStringNext]_vars

(***************************************************************************)
(* calculateCanvasSize on items placed by SetPosition, SetPositionPercent  *)
(* and SetSize                                                             *)
(***************************************************************************)
\* a uint64 is written carry * 2^64 + low: low >= 0 with carry 0 is a small
\* number, low < 0 with carry 1 is a number that far below 2^64.  uint64(x) of
\* an int64 x keeps the bits, so a negative x becomes 2^64 + x.
uint64(x) == [carry |-> IF x < 0 THEN 1 ELSE 0, low |-> x]

\* the uint64 sum u + w of a uint64 and a small width: it passes 2^64 and
\* starts again from 0 when low reaches 0
plus64(u, w) ==
    IF u.carry = 1 /\ u.low + w >= 0 THEN [carry |-> 0, low |-> u.low + w]
    ELSE [carry |-> u.carry, low |-> u.low + w]

\* a > b on uint64
greater64(a, b) == a.carry > b.carry \/ (a.carry = b.carry /\ a.low > b.low)

\* the videos an item may hold; width 0 stands for the nil video
CanvasVideos == {[width |-> 0, height |-> 0], [width |-> 640, height |-> 480],
                 [width |-> 1920, height |-> 1080]}

\* NewCompositeClipItem
NewCompositeClipItem(v) == [video |-> v, x |-> 0, y |-> 0, width |-> 0, height |-> 0]

\* the arguments of SetPosition, of SetPositionPercent (in ten-thousandths) and
\* of SetSize
Positions == {<<-100, 0>>, <<100, 50>>, <<-640, -480>>}
Percents == {<<0, 0>>, <<5000, 5000>>}
Sizes == {<<0, 0>>, <<320, 240>>}

isNilVideo(v) == v.width = 0

\* the loop of calculateCanvasSize over the items, front to back
RECURSIVE canvasMax(_)
canvasMax(items) ==
    IF items = << >> THEN [maxWidth |-> uint64(0), maxHeight |-> uint64(0)]
    ELSE LET before == canvasMax(SubSeq(items, 1, Len(items) - 1))
             item == items[Len(items)]
             clipWidth == IF item.width = 0 THEN item.video.width ELSE item.width
             clipHeight == IF item.height = 0 THEN item.video.height ELSE item.height
             rightEdge == plus64(uint64(item.x), clipWidth)
             bottomEdge == plus64(uint64(item.y), clipHeight)
         IN  IF isNilVideo(item.video) THEN before
             ELSE [maxWidth |-> IF greater64(rightEdge, before.maxWidth)
                                  THEN rightEdge ELSE before.maxWidth,
                   maxHeight |-> IF greater64(bottomEdge, before.maxHeight)
                                   THEN bottomEdge ELSE before.maxHeight]

calculateCanvasSize(items) ==
    IF Len(items) = 0 THEN [width |-> uint64(1920), height |-> uint64(1080)]
    ELSE LET m == canvasMax(items)
             withVideo == SelectSeq(items, LAMBDA item : ~isNilVideo(item.video))
         IN  IF (m.maxWidth = uint64(0) \/ m.maxHeight = uint64(0)) /\ withVideo # << >>
               THEN [width |-> uint64(withVideo[1].video.width),
                     height |-> uint64(withVideo[1].video.height)]
               ELSE [width |-> m.maxWidth, height |-> m.maxHeight]

CanvasInit ==
    /\ fn = "items"
    /\ args \in SeqsUpTo({NewCompositeClipItem(v) : v \in CanvasVideos}, MaxClips)
    /\ ret = << >>
    /\ started = << >>

SetPosition ==
    /\ fn = "items"
    /\ \E i \in 1..Len(args), p \in Positions :
          args' = [args EXCEPT ![i].x = p[1], ![i].y = p[2]]
    /\ UNCHANGED <<notCall, fn, ret, started>>

\* int64(-x * 10000) of a fraction x given in ten-thousandths
SetPositionPercent ==
    /\ fn = "items"
    /\ \E i \in 1..Len(args), p \in Percents :
          args' = [args EXCEPT ![i].x = -p[1], ![i].y = -p[2]]
    /\ UNCHANGED <<notCall, fn, ret, started>>

SetSize ==
    /\ fn = "items"
    /\ \E i \in 1..Len(args), sz \in Sizes :
          args' = [args EXCEPT ![i].width = sz[1], ![i].height = sz[2]]
    /\ UNCHANGED <<notCall, fn, ret, started>>

CalculateCanvasSize ==
    /\ fn = "items"
    /\ ret' = <<calculateCanvasSize(args)>>
    /\ fn' = "return"
    /\ UNCHANGED <<notCall, args, started>>

CanvasNext == SetPosition \/ SetPositionPercent \/ SetSize \/ CalculateCanvasSize

CanvasSpecInit == PipeIdle /\ ChunkIdle /\ GraphIdle /\ CanvasInit

CanvasSpec == CanvasSpecInit /\ [][CanvasNext]_vars

(***************************************************************************)
(* composeFilters and translateFiltersToFFmpeg on the same filter list     *)
(***************************************************************************)
\* longest filter list
MaxFilters == 3

\* composeFilters: the case of the switch a Filter value takes, "none" when
\* the switch has no case for it
switchCase(f) ==
    CASE f = "Inverse" -> "inverseColors"
      [] f = "BlackWhite" -> "blackAndWhite"
      [] f = "Sepia" -> "sepiaTone"
      [] f = "Edge" -> "edgeDetection"
      [] OTHER -> "none"

\* the call the case makes on the pixel at byte i
applyCase(name, data, i) ==
    CASE name = "inverseColors" -> inverseColors(data, i)
      [] name = "blackAndWhite" -> blackAndWhite(data, i)
      [] name = "sepiaTone" -> sepiaTone(data, i)
      [] name = "edgeDetection" -> edgeDetection(data, i)
      [] OTHER -> data

\* the function returned by composeFilters for no custom filters, applied to
\* the pixel at byte i: the cases taken, entry by entry, and the bytes left
RECURSIVE composeFilters(_, _, _)
composeFilters(filters, data, i) ==
    IF filters = << >> THEN [steps |-> << >>, data |-> data]
    ELSE LET before == composeFilters(SubSeq(filters, 1, Len(filters) - 1), data, i)
             name == switchCase(filters[Len(filters)])
         IN  [steps |-> Append(before.steps, name),
              data |-> applyCase(name, before.data, i)]

\* translateFiltersToFFmpeg: the engine filters joined by ","
translateFiltersToFFmpeg(filters) ==
    SelectSeq([k \in 1..Len(filters) |-> translateFilter(filters[k])],
              LAMBDA e : e # "")

\* one RGBA pixel that every pixel function changes, and a black one
ProbePixels == {<<10, 100, 200, 255>>, <<0, 0, 0, 255>>}

ComposeInit ==
    /\ fn = "composeFilters"
    /\ args \in SeqsUpTo(Filters, MaxFilters) \X ProbePixels
    /\ ret = << >>
    /\ started = << >>

\* the pixel strategy: the composed function runs on the pixel
ComposeFilters ==
    /\ fn = "composeFilters"
    /\ ret' = <<composeFilters(args[1], args[2], 0)>>
    /\ fn' = "translateFiltersToFFmpeg"
    /\ UNCHANGED <<notCall, args, started>>

\* the engine strategy: the same list is translated
TranslateFilters ==
    /\ fn = "translateFiltersToFFmpeg"
    /\ ret' = Append(ret, translateFiltersToFFmpeg(args[1]))
    /\ fn' = "return"
    /\ UNCHANGED <<notCall, args, started>>

ComposeNext == ComposeFilters \/ TranslateFilters

ComposeSpecInit == PipeIdle /\ ChunkIdle /\ GraphIdle /\ ComposeInit

ComposeSpec == ComposeSpecInit /\ [][ComposeNext]_vars

\* C11: after the sort, two elements of equal layer are in their declaration
\* order, for every input length.
C11_SortIsStable ==
    (fn = "sortClipsByLayer" /\ ret # << >>) =>
        \A i, j \in 1..Len(ret[1]) :
            (i < j /\ ret[1][i].layer = ret[1][j].layer)
                => ret[1][i].index < ret[1][j].index

\* the nodes emitted for the overlays, and for the composite items
overlayKinds == {"text", "image", "color", "subtitle"}

overlayNodes == {n \in 1..Len(filterParts) : filterParts[n].of.clipType \in overlayKinds}

itemNodes == {n \in 1..Len(filterParts) : filterParts[n].of.clipType = "item"}

\* C12: every node of a text, image, color or subtitle overlay comes after the
\* nodes of every composite item, and among the overlays a node of a lower layer
\* precedes a node of a higher layer, whatever the kinds.
C12_OverlaysAfterItemsByLayer ==
    gpc \in {"built", "mapped"} =>
        /\ \A m \in itemNodes : \A n \in overlayNodes : m < n
        /\ \A m, n \in overlayNodes :
              filterParts[m].of.layer < filterParts[n].of.layer => m < n

\* a color overlay at layer -1 and a text overlay at layer 0, both compiled
C12_Witness ==
    /\ gpc = "built"
    /\ itemNodes # {}
    /\ \E m, n \in overlayNodes :
          /\ filterParts[m].of.clipType = "color" /\ filterParts[m].of.layer = -1
          /\ filterParts[n].of.clipType = "text" /\ filterParts[n].of.layer = 0
          /\ m < n

\* C13: every subtitle node comes after the node of every text, image and color
\* overlay, whatever layers those overlays were given.
C13_SubtitlesTopmost ==
    gpc \in {"built", "mapped"} =>
        \A m, n \in overlayNodes :
            (filterParts[m].of.clipType = "subtitle"
               /\ filterParts[n].of.clipType # "subtitle") => n < m

\* the audio-mix nodes of the compiled graph
mixNodes ==
    {n \in 1..Len(filterParts) :
        filterParts[n].op = "amix" /\ "outa" \in labelsOf(filterParts[n].outs)}

\* C14: hasAudio is returned true exactly when the graph holds one audio-mix
\* node producing outa, so the caller maps [outa] only when that label exists.
C14_HasAudioIffMixNode ==
    gpc \in {"built", "mapped"} =>
        /\ hasAudio <=> Cardinality(mixNodes) = 1
        /\ Cardinality(mixNodes) <= 1
        /\ (gpc = "mapped" /\ mixNodes = {}) =>
              "outa" \notin labelsOf(mapArgs)

\* the distinct non-empty filenames of the items with a clip, in first-seen order
RECURSIVE distinctFilenames(_)
distinctFilenames(items) ==
    IF items = << >> THEN << >>
    ELSE LET before == distinctFilenames(SubSeq(items, 1, Len(items) - 1))
             item == items[Len(items)]
         IN  IF item.video /\ item.filename # ""
                  /\ item.filename \notin labelsOf(before)
               THEN Append(before, item.filename)
               ELSE before

\* the items that have a clip and a filename
resolvedItems(items) ==
    {i \in 1..Len(items) : items[i].video /\ items[i].filename # ""}

clipChains == {n \in 1..Len(filterParts) : filterParts[n].op = "clip"}

\* C15: the engine inputs are the distinct non-empty filenames of the items with
\* a clip, in first-seen order; an item without clip or filename adds no input;
\* the graph has one clip chain per remaining item, reading its own file.
C15_InputsAreResolvedFiles ==
    /\ gpc \in {"inputs", "built", "mapped"} =>
          /\ sourceMap = distinctFilenames(video.compositeItems)
          /\ sources = sourceMap \o buildImageInputs(video.imageClips)
    /\ gpc \in {"built", "mapped"} =>
          /\ Cardinality(clipChains) = Cardinality(resolvedItems(video.compositeItems))
          /\ \A n \in clipChains :
                \E k \in 0..(Len(sourceMap) - 1) :
                    /\ filterParts[n].ins = <<videoIn(k)>>
                    /\ sourceMap[k + 1] # ""

\* a configuration error of the Video handed to WriteVideo: no output path, no
\* valid clip in the timeline, or a non-positive dimension, duration or fps
configurationError(v) ==
    \/ v.outputPath = ""
    \/ isConcatenated(v) /\ validVideosOf(v.sourceVideos) = << >>
    \/ v.isComposited /\ validItemsOf(v.compositeItems, buildSources(v.compositeItems)) = << >>
    \/ v.width <= 0 \/ v.height <= 0 \/ v.duration <= 0 \/ v.fps <= 0

\* C16: on every strategy a configuration error makes WriteVideo return an error
\* before any external engine process is started.
C16_ConfigErrorBeforeEngine ==
    (fn # "none" /\ fn # "sortClipsByLayer" /\ configurationError(args)) =>
        /\ started = << >>
        /\ ret # << >> => ret = <<"error">>

\* C18: writing a concatenation of one clip without trim and filters starts a
\* stream copy with no filter graph; with a trim or filters it compiles a graph
\* with a single clip chain.
C18_SingleClipIsCopied ==
    (fn = "return" /\ Len(args.sourceVideos) = 1 /\ started # << >>) =>
        LET m == args.sourceVideos[1]
            c == started[1]
        IN  IF m.startTime = 0 /\ m.filters = 0
              THEN c.codec = "copy" /\ c.filterComplex = << >>
              ELSE Cardinality({n \in 1..Len(c.filterComplex) :
                                   c.filterComplex[n].op \in {"trim", "copy"}}) = 1

\* the members that survive, front to back: nil, unnamed and empty clips
\* removed, a lazy concatenation replaced by its own source list
RECURSIVE survivors(_)
survivors(videos) ==
    IF videos = << >> THEN << >>
    ELSE LET v == Head(videos)
         IN  (IF v.isNil THEN << >>
              ELSE IF v.lazy THEN v.sourceVideos
              ELSE IF v.filename = "" \/ v.duration <= 0 THEN << >>
              ELSE <<v>>) \o survivors(Tail(videos))

RECURSIVE sumDurations(_)
sumDurations(videos) ==
    IF videos = << >> THEN 0 ELSE Head(videos).duration + sumDurations(Tail(videos))

\* C17: ConcatenateVideos fails exactly when the input is empty or no member
\* survives; otherwise the source list is the surviving members in order, the
\* duration is their sum and the properties are those of the first survivor.
C17_ConcatenateFlattensAndSums ==
    (fn = "ConcatenateVideos" /\ ret # << >>) =>
        LET r == ret[1]
            expected == survivors(args)
        IN  /\ r.err <=> (args = << >> \/ expected = << >>)
            /\ ~r.err =>
                  /\ r.video.sourceVideos = expected
                  /\ r.video.duration = sumDurations(expected)
                  /\ r.video.codec = expected[1].codec
                  /\ r.video.width = expected[1].width

\* a call with a dropped first member and a lazy concatenation expanded in place
C17_Witness ==
    /\ fn = "ConcatenateVideos"
    /\ ret # << >>
    /\ ~ret[1].err
    /\ Len(args) = 2
    /\ args[1].filename = "" /\ ~args[1].lazy
    /\ args[2].lazy /\ Len(args[2].sourceVideos) = 2
    /\ ret[1].video.codec = "vp9"

\* the value the animation is meant to have at time t, as a fraction
piecewise(start, duration, from, to, t) ==
    IF duration <= 0 THEN Value(from, 1)
    ELSE IF t < start THEN Value(from, 1)
    ELSE IF t >= start + duration THEN Value(to, 1)
    ELSE Value(from * duration + (to - from) * (t - start), duration)

\* C19: at every time t the expression built by linearExpr has the value from
\* before start, to from start+duration on, the linear interpolation in
\* between, and the constant from when duration <= 0.
C19_ExpressionIsPiecewiseLinear ==
    fn = "evaluated" =>
        LET v == ret[1]
            w == piecewise(args[1], args[2], args[3], args[4], args[5])
        IN  /\ ~v.nan
            /\ v.num * w.den = w.num * v.den

min255(x) == IF x < 255 THEN x ELSE 255

\* the RGB bytes the filter named fn is specified to give the pixel (r, g, b)
expectedRGB(name, r, g, b) ==
    IF name = "inverseColors" THEN <<255 - r, 255 - g, 255 - b>>
    ELSE IF name = "blackAndWhite"
    THEN LET gray == (77 * r + 150 * g + 29 * b) \div 256 IN <<gray, gray, gray>>
    ELSE IF name = "sepiaTone"
    THEN <<min255((402 * r + 787 * g + 194 * b) \div 1024),
           min255((357 * r + 702 * g + 172 * b) \div 1024),
           min255((278 * r + 547 * g + 134 * b) \div 1024)>>
    ELSE LET avg == (r + g + b) \div 3
         IN  IF 85 < avg /\ avg < 170 THEN <<255, 255, 255>> ELSE <<0, 0, 0>>

isFilter == fn \in {"inverseColors", "blackAndWhite", "sepiaTone", "edgeDetection"}

\* C20: a built-in pixel filter applied at byte index i changes only bytes i,
\* i+1, i+2: alpha and the other pixels keep their values, and the new RGB is
\* 255-c (invert), (77R+150G+29B)>>8 three times (grayscale), the >>10 sums
\* clamped to 255 (sepia), all 255 when the average is strictly between 85 and
\* 170 and all 0 otherwise (edge), every stored value being a byte.
C20_FiltersChangeOnlyRGB ==
    (isFilter /\ ret # << >>) =>
        LET data == args[1]
            i == args[2]
            filtered == ret[1]
        IN  /\ Len(filtered) = Len(data)
            /\ \A k \in 1..Len(data) : k \notin {i + 1, i + 2, i + 3} => filtered[k] = data[k]
            /\ <<filtered[i + 1], filtered[i + 2], filtered[i + 3]>>
                  = expectedRGB(fn, data[i + 1], data[i + 2], data[i + 3])
            /\ \A k \in 1..Len(filtered) : filtered[k] \in 0..255

\* the sepia filter applied to the second pixel, its red sum clamped, its alpha
\* and the first pixel kept
C20_Witness ==
    /\ fn = "sepiaTone"
    /\ ret # << >>
    /\ args[2] = 4
    /\ args[1][5] = 171 /\ args[1][6] = 255 /\ args[1][7] = 255 /\ args[1][8] = 200
    /\ ret[1][5] = 255 /\ ret[1][8] = 200
    /\ ret[1][1] = 255

\* the item's duration when non-zero, else the clip's duration
effectiveDuration(item) == IF item.duration # 0 THEN item.duration ELSE item.clipDuration

TimelineTimes == 0..16

\* C21: an item with startTime > 0 is drawn exactly at the timeline times t
\* with startTime <= t < startTime + duration.
C21_ActiveExactlyInWindow ==
    (fn \in {"audioFilter", "mixed"} /\ args[1].startTime > 0) =>
        \A t \in TimelineTimes :
            enabledAt(ret[1], t)
                <=> (args[1].startTime <= t
                     /\ t < args[1].startTime + effectiveDuration(args[1]))

\* the subclip window of the clip in its source: [start, end), the end open
\* when the clip has no end time
subclipWindow(item) ==
    Window(item.clipStart, IF item.clipEnd > 0 THEN item.clipEnd ELSE Forever)

\* C29: for an item whose clip has audio the audio trim keeps the same source
\* window as the video trim, and that window lies inside the subclip window.
C29_AudioAndVideoTrimAgree ==
    fn = "mixed" =>
        /\ started[2] = started[1]
        /\ subclipWindow(args[1]).lo <= started[1].lo
        /\ started[1].hi <= subclipWindow(args[1]).hi

\* the end times startTime + effective duration of the items with a clip
itemEnds(items) ==
    {items[i].startTime
        + (IF items[i].duration # 0 THEN items[i].duration ELSE items[i].clipDuration) :
        i \in {k \in 1..Len(items) : items[k].video}}

maxOf(S) == IF S = {} THEN 0 ELSE CHOOSE m \in S : \A x \in S : x <= m

\* C22: after any sequence of AddClip and setter calls the composite's duration
\* is the maximum of startTime + effective duration over its items with a clip,
\* and its frame count is the integer part of fps * duration.
C22_DurationFollowsItems ==
    fn = "builder" =>
        /\ args[1].duration = maxOf(itemEnds(args[1].compositeItems))
        /\ 2 * args[1].frames <= fps * args[1].duration
        /\ fps * args[1].duration < 2 * (args[1].frames + 1)

\* C23: WriteVideo leaves the Video it is called on as it was: no step of any
\* strategy, on success or on error, changes a field of the Video, of its
\* items or of its overlays.
C23_WriteVideoIsReadOnly ==
    [][/\ args'.codec = args.codec
       /\ args'.fps = args.fps
       /\ args'.sourceVideos = args.sourceVideos
       /\ args'.compositeItems = args.compositeItems
       /\ args'.colorClips = args.colorClips]_vars

\* C24: the engine input an image overlay's chain reads from is the input at
\* which that image's file was passed to the engine.
C24_ImageChainReadsItsOwnFile ==
    gpc \in {"built", "mapped"} =>
        \A n \in 1..Len(filterParts) :
            filterParts[n].of.clipType = "image" =>
                \A k \in 0..(Len(sources) - 1) :
                    videoIn(k) \in labelsOf(filterParts[n].ins) =>
                        sources[k + 1] = video.imageClips[filterParts[n].of.index + 1].imagePath

readBuffers == {readChan[i].buffer : i \in 1..Len(readChan)}

\* C25: every buffer taken from the pool is returned exactly once by the time
\* processFrameLoop returns, on every path, and a returned buffer is referenced
\* by no queue, stage or worker.
C25_EveryBufferReturnedOnce ==
    /\ \A i, j \in 1..Len(pooled) : i # j => pooled[i] # pooled[j]
    /\ \A b \in pooledBuffers :
          /\ b \notin queuedBuffers /\ b \notin readBuffers
          /\ b # rbuf /\ b # pframe.buffer /\ b # wframe.buffer
          /\ \A t \in TasksInFlight : t.buffer # b
    /\ wpc = "done" => outstanding = 0

\* the overlays that can be rendered: every text and color clip, an image or
\* a subtitle whose file exists
renderable(v) ==
    {o \in {collectOverlays(v)[k] : k \in 1..Len(collectOverlays(v))} :
        CASE o.clipType = "image" ->
               v.imageClips[o.index + 1].imagePath # ""
                   /\ fileExists(v.imageClips[o.index + 1].imagePath)
          [] o.clipType = "subtitle" -> fileExists(v.subtitleClips[o.index + 1].filePath)
          [] OTHER -> TRUE}

\* the chain stays connected: every input is an engine input or was produced
\* by an earlier node, and the mapped label is 0:v or a terminal one
C26_ChainConnected ==
    /\ \A n \in 1..Len(filterParts) :
          \A l \in labelsOf(filterParts[n].ins) :
              isEngineInput(l) \/ \E m \in producers(l) : m < n
    /\ IF filterParts = << >> THEN mapArgs[1] = "0:v"
       ELSE Cardinality(producers(mapArgs[1])) = 1 /\ consumers(mapArgs[1]) = {}

\* C26: in writeVideoWithTextFilters the chain stays connected when an overlay
\* is dropped, the mapped label is terminal, and no node the compiler built
\* with a valid engine operation is dropped: every renderable overlay and the
\* video's own filters have their nodes in the graph.
C26_OnlyUnusableNodesDropped ==
    gpc = "textBuilt" =>
        /\ C26_ChainConnected
        /\ \A o \in renderable(video) :
              \E n \in 1..Len(filterParts) : filterParts[n].of = o
        /\ (video.filters # << >> /\ translateFilter(video.filters[1]) # "")
              => \E n \in 1..Len(filterParts) : "filtered" \in labelsOf(filterParts[n].outs)

\* the length of the part of the source a clip shows: its window when it has
\* one, its duration otherwise
clipLength(v) == IF v.endTime > v.startTime THEN v.endTime - v.startTime ELSE v.duration

\* the one node of the graph that produces the label
producerOf(l) == filterParts[CHOOSE n \in producers(l) : TRUE]

\* C27: the graph of n valid clips produces v0..v(n-1) once each and, when a
\* clip has audio, a0..a(n-1) once each (a trimmed or copied audio chain of the
\* clip's own file for a clip with audio, a silence of the clip's length for a
\* clip without); one concat node takes them pairwise in clip order; outv is
\* produced once and outa once exactly when the returned boolean is true; every
\* [k:v] and [k:a] names the position of the clip's file among the inputs.
C27_ConcatGraphIsWellLabelled ==
    fn = "built" =>
        LET n == Len(args)
            concats == {m \in 1..Len(filterParts) : filterParts[m].op = "concat"}
        IN  /\ n >= 1
            /\ hasAudio <=> (\E i \in 1..n : args[i].audio)
            /\ \A i \in 1..n :
                  /\ Cardinality(producers(label("v", i - 1))) = 1
                  /\ \E k \in 0..(Len(sources) - 1) :
                        /\ sources[k + 1] = args[i].filename
                        /\ producerOf(label("v", i - 1)).ins = <<videoIn(k)>>
                        /\ (hasAudio /\ args[i].audio) =>
                              producerOf(label("a", i - 1)).ins = <<audioIn(k)>>
                  /\ producerOf(label("v", i - 1)).op
                        = (IF isSubclip(args[i]) THEN "trim" ELSE "copy")
                  /\ Cardinality(producers(label("a", i - 1))) = (IF hasAudio THEN 1 ELSE 0)
                  /\ (hasAudio /\ args[i].audio) =>
                        producerOf(label("a", i - 1)).op
                          = (IF isSubclip(args[i]) THEN "atrim" ELSE "acopy")
                  /\ (hasAudio /\ ~args[i].audio) =>
                        /\ producerOf(label("a", i - 1)).ins = << >>
                        /\ producerOf(label("a", i - 1)).op
                             = label("aevalsrc=0:d=", format3(clipLength(args[i])))
            /\ Cardinality(concats) = 1
            /\ \A m \in concats :
                  /\ Len(filterParts[m].ins) = (IF hasAudio THEN 2 * n ELSE n)
                  /\ \A i \in 1..n :
                        IF hasAudio
                          THEN /\ filterParts[m].ins[2 * i - 1] = label("v", i - 1)
                               /\ filterParts[m].ins[2 * i] = label("a", i - 1)
                          ELSE filterParts[m].ins[i] = label("v", i - 1)
                  /\ \A l \in {"outv", "outa"} : producers(l) \subseteq {m}
            /\ Cardinality(producers("outv")) = 1
            /\ Cardinality(producers("outa")) = (IF hasAudio THEN 1 ELSE 0)
            /\ \A m \in 1..Len(filterParts) :
                  \A l \in labelsOf(filterParts[m].ins) :
                      isEngineInput(l) \/ Cardinality(producers(l)) = 1

\* two clips of different files, the first with audio and the second a silent
\* subclip, have been compiled
C27_Witness ==
    /\ fn = "built"
    /\ Len(args) = 2
    /\ args[1].audio
    /\ ~args[2].audio
    /\ args[2].endTime > 0
    /\ hasAudio
    /\ Len(sources) = 2

\* x + effective width and y + effective height of the items that have a video
rightEdges(items) ==
    {items[i].x + (IF items[i].width = 0 THEN items[i].video.width ELSE items[i].width) :
        i \in {j \in 1..Len(items) : ~isNilVideo(items[j].video)}}

bottomEdges(items) ==
    {items[i].y + (IF items[i].height = 0 THEN items[i].video.height ELSE items[i].height) :
        i \in {j \in 1..Len(items) : ~isNilVideo(items[j].video)}}

\* C28: for every list with an item that has a video, the width returned by
\* calculateCanvasSize is the largest x + effective width and the height the
\* largest y + effective height, also for items at a negative position.
C28_CanvasIsLargestExtent ==
    (fn = "return" /\ rightEdges(args) # {}) =>
        /\ ret[1].width = [carry |-> 0, low |-> maxOf(rightEdges(args))]
        /\ ret[1].height = [carry |-> 0, low |-> maxOf(bottomEdges(args))]

\* the entries of the list for which the composed function calls a pixel
\* function
pixelEntries == {k \in 1..Len(args[1]) : ret[1].steps[k] # "none"}

\* C30: for every filter list, the composed pixel function acts for an entry
\* exactly when translateFiltersToFFmpeg emits an engine filter for that entry,
\* so both strategies apply the same filters in the same order.
C30_StrategiesHonourSameFilters ==
    fn = "return" =>
        /\ \A k \in 1..Len(args[1]) :
              k \in pixelEntries <=> translateFilter(args[1][k]) # ""
        /\ Len(ret[2]) = Cardinality(pixelEntries)

====
